---- MODULE Spec2Model ----
(***************************************************************************)
(* HPE Support Center case bot (hpe_cases_overview.py): the run of main()  *)
(* as a state machine.  One browsing context, one page, strictly program   *)
(* order; the portal (the page shown after every driver call), the wall    *)
(* clock, the file system's failures and the user's Ctrl+C are the         *)
(* environment and are chosen nondeterministically.                        *)
(***************************************************************************)
EXTENDS Integers, Sequences, FiniteSets, TLC

(* ------------------------------ bounds -------------------------------- *)
\* wall-clock ticks the model follows after the start of the run
Horizon == 2
\* iterations of perform_login's time-bounded loop (120 s in the code)
MaxLoginIters == 2
\* polls of ensure_ready's time-bounded loop (45 s in the code)
MaxPolls == 2
\* scan rounds of collect_case_numbers followed by the model (range(15))
MaxRounds == 2
\* matches one scan of the page returns at most
MaxTexts == 2
\* chunks of a serialized session blob
BlobLen == 2

\* time.time() when main() starts
Epoch == 1
\* case identifiers the portal can show
CaseIds == {"5000001", "5000002"}
\* values of --timeout and --max tried
TimeoutArgs == {0, 1}
MaxArgs == {0, 1}

(* ------------------------------- URLs --------------------------------- *)
\* A URL is modelled by the set of the marker substrings it contains; the
\* code only ever tests `marker in url`.
PORTAL == "support.hpe.com/connect/s"
AUTH == "auth.hpe.com"
TAB == "tab=cases"
Urls == { {PORTAL}, {PORTAL, TAB}, {AUTH}, {AUTH, PORTAL}, {} }
UrlContains(u, s) == s \in u

\* What the page shows: its URL and the visible signals.
\*   form    a login form input or an auth-page text is visible
\*   out     a sign-in trigger is present and no sign-out text is visible
\*   expired a session-expired banner text is visible
\*   authing the "authenticating" placeholder text is visible
Pages == [url : Urls, form : BOOLEAN, out : BOOLEAN,
          expired : BOOLEAN, authing : BOOLEAN]
\* the page between a navigation (or a wait) and the next look at it
Loading == [url |-> {"loading"}, form |-> FALSE, out |-> FALSE,
            expired |-> FALSE, authing |-> FALSE]

IsSessionExpired(p) == p.expired
IsAuthenticating(p) == p.authing
IsHpeAuthPage(p) == UrlContains(p.url, AUTH)
IsLoginScreen(p) == IsHpeAuthPage(p) \/ p.form
IsLoggedOut(p) == p.out

\* main(): need_login
NeedLogin(p) ==
  IsSessionExpired(p) \/ IsLoginScreen(p) \/ IsAuthenticating(p) \/ IsLoggedOut(p)

\* perform_login's success test, used at the top of the loop and after submit
LoginConfirmedUrlOnly(p) == UrlContains(p.url, PORTAL)
LoginConfirmed(p) ==
  UrlContains(p.url, PORTAL) /\ (~IsLoggedOut(p)) /\ (~IsLoginScreen(p))

(* ---------------------------- credentials ----------------------------- *)
Usernames == {"", "user"}
Passwords == {"", "secret"}
\* main(): `if username and password`
HaveCredentialsUserOnly(u, pw) == u # ""
HaveCredentials(u, pw) == u # "" /\ pw # ""
\* perform_login(): `if not username or not password: return False`
MissingCredentials(u, pw) == u = "" \/ pw = ""

(* ------------------------------ deadline ------------------------------ *)
\* _DEADLINE is None (modelled 0, equally falsy) or the instant of the deadline
SetDeadline(t, timeout) == IF timeout > 0 THEN t + timeout ELSE 0
\* _check_deadline(): TRUE when it raises RuntimeError('GLOBAL_TIMEOUT')
CheckDeadline(d, t) == d # 0 /\ t > d

(* ----------------------------- file system ---------------------------- *)
\* content of a path that does not exist
Absent == <<-1>>
StatePath == <<"hpe_state", "json">>
\* state_path.with_suffix(state_path.suffix + ".tmp")
TmpPathInPlace(path) == path
TmpPath(path) == Append(path, "tmp")
Paths == {StatePath, TmpPath(StatePath)}
\* the serialized storage state of session version v
Blob(v) == [i \in 1..BlobLen |-> v]
IsBlob(c) == c # Absent /\ Len(c) = BlobLen /\ \A i \in 1..Len(c) : c[i] = c[1]
\* tmp.replace(state_path): one atomic rename
Replace(f, src, dst) ==
  [q \in DOMAIN f |-> IF q = dst THEN f[src] ELSE IF q = src THEN Absent ELSE f[q]]

NavResults == {"ok", "aborted", "error"}
\* the transient abort class of a navigation, as the driver words it
ERR_ABORTED == "net::ERR_ABORTED"

VARIABLES
  entry,        \* "main": a run of main(); "perform_login": a direct call
  pc,           \* position in the program
  exit,         \* "running", the exit code of main(), or "uncaught"
  uncaught,     \* the exception that left main(), "" if none
  cfgExists, username, password, timeoutArg, maxArg,   \* inputs
  now, DEADLINE,
  page, lastNav,
  fs, ctxVer, awCaller, awPrev,
  ok, caller, plIter,
  erCall, erPolls, raised,
  found, round, case_nos, idx, results, errors,
  alarm, outputs, written,
  fnArgs, fnRet,  \* a direct call of one function: its arguments, its result
  authPending, loginFailed, lateCheck, navAfterLate, recoveredReady, enumerated,
  finalPersists  \* the end-of-run persists attempted so far (main 1926-1930)

\* what the run is given; none of it changes during a run of main()
inputs == <<entry, cfgExists, username, password, timeoutArg, maxArg, fnArgs, fnRet>>
fileVars == <<fs, ctxVer, awCaller, awPrev>>
loginVars == <<ok, caller, plIter>>
readyVars == <<erCall, erPolls, raised>>
caseVars == <<found, round, case_nos, idx, results, errors>>
histVars == <<authPending, loginFailed, lateCheck, navAfterLate, recoveredReady, enumerated, finalPersists>>
vars == <<pc, exit, uncaught, inputs, now, DEADLINE, page, lastNav, fileVars,
          loginVars, readyVars, caseVars, alarm, outputs, written, histVars>>

Init ==
  /\ entry \in {"main", "perform_login"}
  /\ pc = "start"
  /\ exit = "running"
  /\ uncaught = ""
  /\ cfgExists \in BOOLEAN
  /\ username \in Usernames
  /\ password \in Passwords
  /\ timeoutArg \in TimeoutArgs
  /\ maxArg \in MaxArgs
  /\ now = Epoch
  /\ DEADLINE = 0
  /\ page = Loading
  /\ lastNav = "none"
  /\ fs \in [Paths -> {Absent, Blob(0)}]
  /\ fs[TmpPath(StatePath)] = IF TmpPath(StatePath) = StatePath THEN fs[StatePath] ELSE Absent
  /\ ctxVer = 1
  /\ awCaller = "none"
  /\ awPrev = Absent
  /\ ok = FALSE
  /\ caller = "none"
  /\ plIter = 0
  /\ erCall = 1
  /\ erPolls = 0
  /\ raised = ""
  /\ found = <<>>
  /\ round = 0
  /\ case_nos = <<>>
  /\ idx = 1
  /\ results = <<>>
  /\ errors = <<>>
  /\ alarm = FALSE
  /\ outputs = FALSE
  /\ written = {}
  /\ fnArgs = <<>>
  /\ fnRet = <<>>
  /\ authPending = FALSE
  /\ loginFailed = FALSE
  /\ lateCheck = FALSE
  /\ navAfterLate = FALSE
  /\ recoveredReady = FALSE
  /\ enumerated = FALSE
  /\ finalPersists = 0

\* the clock after a step that takes time; it is followed only while a
\* deadline is set, nothing else reads it
Tick(t) == {t} \cup (IF DEADLINE # 0 /\ t < Epoch + Horizon THEN {t + 1} ELSE {})

\* main() returns `code`
Return(code) == pc' = "done" /\ exit' = code /\ uncaught' = ""
\* exception `e` propagates out of main()
Propagate(e) == pc' = "done" /\ exit' = "uncaught" /\ uncaught' = e

(* ------------------------- main(): start-up --------------------------- *)
\* main() 1612-1633: the deadline is configured, a missing selectors file
\* returns 3 (a missing state file is only a warning)
Start ==
  /\ pc = "start" /\ entry = "main"
  /\ DEADLINE' = SetDeadline(now, timeoutArg)
  /\ IF ~cfgExists
       THEN Return("3")
       ELSE pc' = "goto_home" /\ UNCHANGED <<exit, uncaught>>
  /\ UNCHANGED <<inputs, now, page, lastNav, fileVars, loginVars, readyVars,
                 caseVars, alarm, outputs, written, histVars>>

\* main() 1662-1663: page.goto(home_url) is not guarded: any driver error,
\* the transient abort included, leaves main(); then the first checkpoint
GotoHome ==
  /\ pc = "goto_home"
  /\ \E res \in NavResults, t \in Tick(now) :
       /\ now' = t
       /\ lastNav' = "home"
       /\ navAfterLate' = (navAfterLate \/ lateCheck)
       /\ IF res # "ok"
            THEN /\ Propagate(IF res = "aborted" THEN ERR_ABORTED ELSE "PWError")
                 /\ UNCHANGED <<page, lateCheck>>
            ELSE /\ page' = Loading
                 /\ IF CheckDeadline(DEADLINE, t)
                      THEN lateCheck' = TRUE /\ Return("4")
                      ELSE pc' = "portal_state" /\ UNCHANGED <<exit, uncaught, lateCheck>>
  /\ UNCHANGED <<inputs, DEADLINE, fileVars, loginVars, readyVars, caseVars,
                 alarm, outputs, written, authPending, loginFailed, recoveredReady, enumerated, finalPersists>>

\* main() 1664-1699: the portal renders (wait_for_portal_state), need_login
\* is computed; a needed login is attempted only with both credentials
PortalState ==
  /\ pc = "portal_state"
  /\ \E p \in Pages, t \in Tick(now) :
       /\ page' = p
       /\ now' = t
       /\ IF NeedLogin(p)
            THEN IF HaveCredentials(username, password)
                   THEN /\ pc' = "pl_entry" /\ caller' = "initial"
                        /\ UNCHANGED <<exit, uncaught, alarm, loginFailed>>
                   ELSE /\ alarm' = TRUE /\ loginFailed' = TRUE
                        /\ Return("2") /\ UNCHANGED caller
            ELSE /\ pc' = "goto_cases"
                 /\ UNCHANGED <<exit, uncaught, alarm, loginFailed, caller>>
  /\ UNCHANGED <<inputs, DEADLINE, lastNav, fileVars, ok, plIter, readyVars, caseVars,
                 outputs, written, authPending, lateCheck, navAfterLate, recoveredReady, enumerated, finalPersists>>

(* --------------------------- perform_login ---------------------------- *)
\* a direct call of perform_login(page, context, cfg, home_url, username, password)
CallPerformLogin ==
  /\ pc = "start" /\ entry = "perform_login"
  /\ pc' = "pl_entry" /\ caller' = "direct"
  /\ UNCHANGED <<exit, uncaught, inputs, now, DEADLINE, page, lastNav, fileVars,
                 ok, plIter, readyVars, caseVars, alarm, outputs, written, histVars>>

\* perform_login 505-588: the credential guard, then the navigation to the
\* sign-in entry point with its fallback (home, checkpoint, sign-in); the
\* fallback's `except Exception` also swallows the checkpoint's abort
PLEntry ==
  /\ pc = "pl_entry"
  /\ IF MissingCredentials(username, password)
       THEN /\ ok' = FALSE /\ pc' = "pl_ret"
            /\ UNCHANGED <<page, lastNav, now, plIter, lateCheck, navAfterLate>>
       ELSE \E r1 \in NavResults, r2 \in NavResults, r3 \in NavResults,
               t \in Tick(now) :
              /\ now' = t
              /\ page' = Loading
              /\ navAfterLate' = (navAfterLate \/ lateCheck)
              /\ plIter' = 0
              /\ IF r1 = "ok"
                   THEN /\ lastNav' = "signin" /\ pc' = "pl_loop"
                        /\ UNCHANGED <<ok, lateCheck>>
                   ELSE IF r2 # "ok"
                     THEN /\ lastNav' = "home" /\ ok' = FALSE /\ pc' = "pl_ret"
                          /\ UNCHANGED lateCheck
                     ELSE IF CheckDeadline(DEADLINE, t)
                       THEN /\ lastNav' = "home" /\ lateCheck' = TRUE
                            /\ ok' = FALSE /\ pc' = "pl_ret"
                       ELSE /\ lastNav' = "signin" /\ UNCHANGED lateCheck
                            /\ IF r3 = "ok"
                                 THEN pc' = "pl_loop" /\ UNCHANGED ok
                                 ELSE ok' = FALSE /\ pc' = "pl_ret"
  /\ UNCHANGED <<exit, uncaught, inputs, DEADLINE, fileVars, caller, readyVars, caseVars,
                 alarm, outputs, written, authPending, loginFailed, recoveredReady, enumerated, finalPersists>>

\* the inputs a loop iteration finds (config selectors, then generic fallbacks)
Inputs == {"none", "user", "pass", "both"}

\* perform_login 617-707 and 732-736: an iteration from the expired-banner
\* test to the submit, on page p with the inputs found (`box`); `fill` is
\* whether fill or its clear-and-type fallback worked.  "failed": return
\* False; "submitted": password filled and submitted; "again": Next pressed
\* or nothing found, wait and go round
LoginStep(p, box, fill) ==
  IF IsSessionExpired(p) THEN "failed"
  ELSE IF box # "none" /\ ~fill THEN "failed"
  ELSE IF box \in {"pass", "both"} THEN "submitted"
  ELSE "again"

\* perform_login 590-707: one iteration.  The page is looked at; the portal
\* without login-screen / logged-out signal is success; an authenticating
\* screen is waited out first (then the page is looked at again, PLInputs)
PLLoop ==
  /\ pc = "pl_loop"
  /\ \E t \in Tick(now), p \in Pages, box \in Inputs, fill \in BOOLEAN :
       /\ now' = t
       /\ page' = IF plIter < MaxLoginIters /\ LoginConfirmed(p) THEN p ELSE Loading
       /\ IF plIter >= MaxLoginIters
            THEN \* the loop's time is up
                 /\ ok' = FALSE /\ pc' = "pl_ret" /\ plIter' = 0
                 /\ UNCHANGED <<authPending, ctxVer>>
            ELSE IF LoginConfirmed(p)
              THEN /\ ok' = TRUE /\ pc' = "pl_ret" /\ plIter' = 0
                   /\ authPending' = (caller # "direct") /\ ctxVer' = ctxVer + 1
              ELSE /\ UNCHANGED <<authPending, ctxVer>>
                   /\ IF IsAuthenticating(p)
                        THEN pc' = "pl_inputs" /\ UNCHANGED <<ok, plIter>>
                        ELSE LET r == LoginStep(p, box, fill)
                             IN IF r = "failed"
                                  THEN ok' = FALSE /\ pc' = "pl_ret" /\ plIter' = 0
                                  ELSE IF r = "submitted"
                                    THEN pc' = "pl_submitted" /\ UNCHANGED <<ok, plIter>>
                                    ELSE /\ pc' = "pl_loop" /\ plIter' = plIter + 1
                                         /\ UNCHANGED ok
  /\ UNCHANGED <<exit, uncaught, inputs, DEADLINE, lastNav, fs, awCaller, awPrev, caller,
                 readyVars, caseVars, alarm, outputs, written, loginFailed, lateCheck,
                 navAfterLate, recoveredReady, enumerated, finalPersists>>

\* perform_login 617-707 after the wait on an authenticating screen
PLInputs ==
  /\ pc = "pl_inputs"
  /\ \E p \in Pages, box \in Inputs, fill \in BOOLEAN :
       LET r == LoginStep(p, box, fill)
       IN IF r = "failed"
            THEN ok' = FALSE /\ pc' = "pl_ret" /\ plIter' = 0
            ELSE IF r = "submitted"
              THEN pc' = "pl_submitted" /\ UNCHANGED <<ok, plIter>>
              ELSE pc' = "pl_loop" /\ plIter' = plIter + 1 /\ UNCHANGED ok
  /\ UNCHANGED <<exit, uncaught, inputs, now, DEADLINE, page, lastNav, fileVars, caller,
                 readyVars, caseVars, alarm, outputs, written, histVars>>

\* perform_login 709-730: after the submit, success needs the portal URL
\* and no login-screen / logged-out signal; otherwise the loop continues
PLSubmitted ==
  /\ pc = "pl_submitted"
  /\ \E p \in Pages, t \in Tick(now) :
       /\ now' = t
       /\ IF LoginConfirmed(p)
            THEN /\ page' = p /\ ok' = TRUE /\ pc' = "pl_ret" /\ plIter' = 0
                 /\ authPending' = (caller # "direct") /\ ctxVer' = ctxVer + 1
            ELSE /\ page' = Loading /\ pc' = "pl_loop" /\ plIter' = plIter + 1
                 /\ UNCHANGED <<ok, authPending, ctxVer>>
  /\ UNCHANGED <<exit, uncaught, inputs, DEADLINE, lastNav, fs, awCaller, awPrev, caller,
                 readyVars, caseVars, alarm, outputs, written, loginFailed, lateCheck,
                 navAfterLate, recoveredReady, enumerated, finalPersists>>

\* the direct call returns
PLReturnDirect ==
  /\ pc = "pl_ret" /\ caller = "direct"
  /\ pc' = "done"
  /\ UNCHANGED <<exit, uncaught, inputs, now, DEADLINE, page, lastNav, fileVars,
                 loginVars, readyVars, caseVars, alarm, outputs, written, histVars>>

(* -------------------- main(): after a login attempt ------------------- *)
\* main() 1673-1685 (caller "initial") and 1720-1730 (caller "recover"):
\* the checkpoint comes first, then the test of ok, then the persist
AfterLogin ==
  /\ pc = "pl_ret" /\ caller \in {"initial", "recover"}
  /\ loginFailed' = (loginFailed \/ ~ok)
  /\ page' = Loading /\ ok' = FALSE /\ caller' = "none"
  /\ IF CheckDeadline(DEADLINE, now)
       THEN lateCheck' = TRUE /\ Return("4") /\ UNCHANGED <<alarm, awCaller>>
       ELSE /\ UNCHANGED lateCheck
            /\ IF ~ok
                 THEN alarm' = TRUE /\ Return("2") /\ UNCHANGED awCaller
                 ELSE /\ pc' = "aw_open" /\ awCaller' = caller
                      /\ UNCHANGED <<exit, uncaught, alarm>>
  /\ UNCHANGED <<inputs, now, DEADLINE, lastNav, fs, ctxVer, awPrev, plIter,
                 readyVars, caseVars, outputs, written, authPending, navAfterLate,
                 recoveredReady, enumerated, finalPersists>>

(* --------------------- atomic_write_storage_state --------------------- *)
\* where main() continues after the try/except around the persist
AfterPersistAlwaysFinish(c) == "finish"
AfterPersist(c) ==
  CASE c = "initial" -> "rehome"
    [] c = "recover" -> "goto_cases"
    [] OTHER -> "finish"

\* atomic_write_storage_state 184-185: the temporary path is computed and
\* context.storage_state(path=tmp) creates/truncates it
AWOpen ==
  /\ pc = "aw_open"
  /\ authPending' = FALSE
  /\ finalPersists' = IF awCaller = "final" THEN finalPersists + 1 ELSE finalPersists
  /\ awPrev' = fs[StatePath]
  /\ fs' = [fs EXCEPT ![TmpPath(StatePath)] = <<>>]
  /\ pc' = "aw_write"
  /\ UNCHANGED <<exit, uncaught, inputs, now, DEADLINE, page, lastNav, ctxVer, awCaller,
                 loginVars, readyVars, caseVars, alarm, outputs, written, loginFailed,
                 lateCheck, navAfterLate, recoveredReady, enumerated>>

\* atomic_write_storage_state 185: the blob is written chunk by chunk; an
\* I/O error leaves a partial temporary file and is caught by the caller
AWWrite ==
  /\ pc = "aw_write"
  /\ LET tmp == TmpPath(StatePath)
         n == Len(fs[tmp])
     IN \/ /\ n < BlobLen
           /\ fs' = [fs EXCEPT ![tmp] = Append(fs[tmp], Blob(ctxVer)[n + 1])]
           /\ pc' = IF n + 1 = BlobLen THEN "aw_rename" ELSE "aw_write"
           /\ UNCHANGED <<awCaller, awPrev>>
        \/ /\ pc' = AfterPersist(awCaller)
           /\ awCaller' = "none" /\ awPrev' = Absent
           /\ UNCHANGED fs
  /\ UNCHANGED <<exit, uncaught, inputs, now, DEADLINE, page, lastNav, ctxVer,
                 loginVars, readyVars, caseVars, alarm, outputs, written, histVars>>

\* atomic_write_storage_state 186: tmp.replace(state_path)
AWRename ==
  /\ pc = "aw_rename"
  /\ fs' = Replace(fs, TmpPath(StatePath), StatePath)
  /\ pc' = AfterPersist(awCaller)
  /\ awCaller' = "none" /\ awPrev' = Absent
  /\ UNCHANGED <<exit, uncaught, inputs, now, DEADLINE, page, lastNav, ctxVer,
                 loginVars, readyVars, caseVars, alarm, outputs, written, histVars>>

(* ------------------ main(): back to home after login ------------------ *)
\* main() 1689-1695: goto(home) and a checkpoint inside try/except Exception:
\* pass, which swallows the checkpoint's abort as well
ReHome ==
  /\ pc = "rehome"
  /\ \E res \in NavResults, t \in Tick(now) :
       /\ now' = t
       /\ page' = Loading
       /\ lastNav' = "home"
       /\ navAfterLate' = (navAfterLate \/ lateCheck)
       /\ lateCheck' = (lateCheck \/ (res = "ok" /\ CheckDeadline(DEADLINE, t)))
  /\ pc' = "goto_cases"
  /\ UNCHANGED <<exit, uncaught, inputs, DEADLINE, fileVars, loginVars, readyVars,
                 caseVars, alarm, outputs, written, authPending, loginFailed, recoveredReady,
                 enumerated, finalPersists>>

(* ------------------------ goto_cases_with_retry ----------------------- *)
\* goto_cases_with_retry 811-857: "returned" or "raised".  The first goto
\* returns, raises, or is aborted; after an abort the route check, the wait
\* for the route, the link click (`routed`) or the last goto may return; the
\* last goto's own abort returns too, any other error of it raises.
GotoCasesWithRetry(first, routed, last) ==
  IF first = "ok" THEN "returned"
  ELSE IF first = "error" THEN "raised"
  ELSE IF routed THEN "returned"
  ELSE IF last = "error" THEN "raised"
  ELSE "returned"

\* main() 1706-1708 (erCall 1) and 1735-1738 (erCall 2, in the handler)
GotoCases ==
  /\ pc = "goto_cases"
  /\ \E first \in NavResults, routed \in BOOLEAN, last \in NavResults,
        t \in Tick(now) :
       /\ now' = t
       /\ page' = Loading
       /\ lastNav' = "cases"
       /\ navAfterLate' = (navAfterLate \/ lateCheck)
       /\ IF GotoCasesWithRetry(first, routed, last) = "raised"
            THEN Propagate("PWError") /\ UNCHANGED <<lateCheck, erPolls>>
            ELSE IF CheckDeadline(DEADLINE, t)
              THEN lateCheck' = TRUE /\ Return("4") /\ UNCHANGED erPolls
              ELSE /\ pc' = "ensure_ready" /\ erPolls' = 0
                   /\ UNCHANGED <<exit, uncaught, lateCheck>>
  /\ UNCHANGED <<inputs, DEADLINE, fileVars, loginVars, erCall, raised, caseVars,
                 alarm, outputs, written, authPending, loginFailed, recoveredReady, enumerated, finalPersists>>

(* ----------------------------- ensure_ready --------------------------- *)
\* what the case list shows when polled: its container, a case pattern,
\* nothing yet, or the driver fails (target closed)
ListViews == {"container", "pattern", "none", "closed"}

\* ensure_ready 758-796, one poll: "LOGIN_REQUIRED", "SESSION_EXPIRED",
\* "PWError", "ready", or "wait" (poll again)
EnsureReadyPoll(p, view) ==
  IF IsLoginScreen(p) \/ IsLoggedOut(p) \/ IsAuthenticating(p) THEN "LOGIN_REQUIRED"
  ELSE IF ~UrlContains(p.url, TAB) THEN "wait"
  ELSE IF IsSessionExpired(p) THEN "SESSION_EXPIRED"
  ELSE IF view = "container" THEN "ready"
  ELSE IF view = "pattern" THEN "ready"
  ELSE IF view = "closed" THEN "PWError"
  ELSE "wait"

\* main() 1710-1713 and 1739: the first call's RuntimeError / PWError goes to
\* the handler; the second call is made inside the handler, so whatever it
\* raises leaves main()
EnsureReady ==
  /\ pc = "ensure_ready"
  /\ \E view \in ListViews, p \in Pages, t \in Tick(now) :
       LET r == IF erPolls >= MaxPolls THEN "CASES_PAGE_NOT_READY_TIMEOUT"
                ELSE EnsureReadyPoll(p, view)
       IN /\ now' = t
          /\ IF r = "wait"
               THEN /\ page' = Loading /\ erPolls' = erPolls + 1 /\ pc' = "ensure_ready"
                    /\ UNCHANGED <<exit, uncaught, raised, recoveredReady>>
               ELSE /\ page' = (IF r = "ready" THEN p ELSE Loading) /\ erPolls' = 0
                    /\ IF r = "ready"
                         THEN /\ pc' = IF erCall = 1 THEN "collect" ELSE "er_tail"
                              /\ recoveredReady' = (erCall = 2)
                              /\ UNCHANGED <<exit, uncaught, raised>>
                         ELSE IF erCall = 1
                           THEN /\ pc' = "er_handler" /\ raised' = r
                                /\ UNCHANGED <<exit, uncaught, recoveredReady>>
                           ELSE Propagate(r) /\ UNCHANGED <<raised, recoveredReady>>
  /\ UNCHANGED <<inputs, DEADLINE, lastNav, fileVars, loginVars, erCall, caseVars,
                 alarm, outputs, written, authPending, loginFailed, lateCheck, navAfterLate,
                 enumerated, finalPersists>>

\* main() 1713-1716: reason = str(e), a driver error counts as LOGIN_REQUIRED
Reason(e) == IF e = "PWError" THEN "LOGIN_REQUIRED" ELSE e

\* main() 1744-1745: `if reason != "SESSION_EXPIRED": raise`
ReRaisesNever(reason) == FALSE
ReRaises(reason) == reason # "SESSION_EXPIRED"

\* main() 1712-1720 and 1740-1745: the handler of the first readiness check
ERHandler ==
  /\ pc = "er_handler"
  /\ IF Reason(raised) \in {"SESSION_EXPIRED", "LOGIN_REQUIRED"}
       THEN IF HaveCredentials(username, password)
              THEN /\ pc' = "rs_entry"
                   /\ UNCHANGED <<exit, uncaught, alarm, loginFailed>>
              ELSE /\ alarm' = TRUE /\ loginFailed' = TRUE /\ Return("2")
       ELSE /\ UNCHANGED <<alarm, loginFailed>>
            /\ IF ReRaises(Reason(raised))
                 THEN Propagate(raised)
                 ELSE pc' = "collect" /\ UNCHANGED <<exit, uncaught>>
  /\ UNCHANGED <<inputs, now, DEADLINE, page, lastNav, fileVars, loginVars, readyVars,
                 caseVars, outputs, written, authPending, lateCheck, navAfterLate,
                 recoveredReady, enumerated, finalPersists>>

\* recover_session 743-755: cookies cleared, goto(home) with its errors
\* ignored, storage cleared, then perform_login
RecoverSession ==
  /\ pc = "rs_entry"
  /\ \E t \in Tick(now) : now' = t
  /\ page' = Loading
  /\ lastNav' = "home"
  /\ navAfterLate' = (navAfterLate \/ lateCheck)
  /\ pc' = "pl_entry" /\ caller' = "recover" /\ erCall' = 2
  /\ UNCHANGED <<exit, uncaught, inputs, DEADLINE, fileVars, ok, plIter, erPolls, raised,
                 caseVars, alarm, outputs, written, authPending, loginFailed, lateCheck,
                 recoveredReady, enumerated, finalPersists>>

\* main() 1744-1745 after a recovery whose second readiness check passed
ERTail ==
  /\ pc = "er_tail"
  /\ IF ReRaises(Reason(raised))
       THEN Propagate(raised) /\ UNCHANGED raised
       ELSE pc' = "collect" /\ raised' = "" /\ UNCHANGED <<exit, uncaught>>
  /\ UNCHANGED <<inputs, now, DEADLINE, page, lastNav, fileVars, loginVars, erCall,
                 erPolls, caseVars, alarm, outputs, written, histVars>>

(* ------------------------- collect_case_numbers ----------------------- *)
\* what one scan returns: the matched texts, "" for a text the identifier
\* pattern does not match
RECURSIVE SeqsUpTo(_, _)
SeqsUpTo(S, n) ==
  IF n = 0 THEN {<<>>}
  ELSE LET shorter == SeqsUpTo(S, n - 1)
       IN shorter \cup {Append(q, x) : q \in shorter, x \in S}
Texts == SeqsUpTo(CaseIds \cup {""}, MaxTexts)

\* collect_case_numbers 1408: `cn not in seen` (seen holds what found holds)
IsNewAlways(cn, fnd) == TRUE
IsNew(cn, fnd) == \A i \in 1..Len(fnd) : fnd[i] # cn

\* collect_case_numbers 1404-1412: one scan's matches are added in order;
\* full = the function returned from inside the scan (max_cases reached)
RECURSIVE ScanTexts(_, _, _)
ScanTexts(fnd, texts, max_cases) ==
  IF texts = <<>> THEN [found |-> fnd, full |-> FALSE]
  ELSE LET cn == Head(texts)
       IN IF cn # "" /\ IsNew(cn, fnd)
            THEN LET f2 == Append(fnd, cn)
                 IN IF max_cases > 0 /\ Len(f2) >= max_cases
                      THEN [found |-> f2, full |-> TRUE]
                      ELSE ScanTexts(f2, Tail(texts), max_cases)
            ELSE ScanTexts(fnd, Tail(texts), max_cases)

\* main() 1748-1749: the slice to --max and the filter of empty identifiers
CaseList(fnd, max) ==
  LET cut == IF max > 0 /\ Len(fnd) > max THEN SubSeq(fnd, 1, max) ELSE fnd
  IN SelectSeq(cut, LAMBDA c : c # "")

\* main() 1747 with collect_case_numbers 1395-1429: one scan round; the
\* pause after the scroll is a driver call outside any try
Collect ==
  /\ pc = "collect"
  /\ enumerated' = TRUE
  /\ \E texts \in Texts, t \in Tick(now), paused \in BOOLEAN :
       LET r == ScanTexts(found, texts, maxArg)
       IN /\ now' = t
          /\ IF r.full \/ (paused /\ round + 1 >= MaxRounds)
               THEN /\ case_nos' = CaseList(r.found, maxArg)
                    /\ found' = <<>> /\ round' = 0
                    /\ pc' = "case_loop" /\ idx' = 1
                    /\ UNCHANGED <<exit, uncaught>>
               ELSE IF paused
                 THEN /\ found' = r.found /\ round' = round + 1 /\ pc' = "collect"
                      /\ UNCHANGED <<exit, uncaught, case_nos, idx>>
                 ELSE /\ Propagate("PWError") /\ found' = r.found
                      /\ UNCHANGED <<round, case_nos, idx>>
  /\ UNCHANGED <<inputs, DEADLINE, page, lastNav, fileVars, loginVars, readyVars,
                 results, errors, alarm, outputs, written, authPending, loginFailed, lateCheck,
                 navAfterLate, recoveredReady, finalPersists>>

(* ------------------------------ case loop ----------------------------- *)
\* what happens to one case: processed, or an exception at one of the steps
CaseOutcomes == {"ok", "Could not click case in list"}
Row(case_no) == [case_no |-> case_no]

\* main() 1755-1900: the body of one iteration with its try/except Exception
ProcessCaseNoCatch(case_no, outcome, rs, es) ==
  IF outcome = "ok"
    THEN [results |-> Append(rs, Row(case_no)), errors |-> es, propagates |-> FALSE]
    ELSE [results |-> rs, errors |-> es, propagates |-> TRUE]
ProcessCaseAppendsEarly(case_no, outcome, rs, es) ==
  IF outcome = "ok"
    THEN [results |-> Append(rs, Row(case_no)), errors |-> es, propagates |-> FALSE]
    ELSE [results |-> Append(rs, Row(case_no)),
          errors |-> Append(es, [case_no |-> case_no, error |-> outcome]),
          propagates |-> FALSE]
ProcessCase(case_no, outcome, rs, es) ==
  IF outcome = "ok"
    THEN [results |-> Append(rs, Row(case_no)), errors |-> es, propagates |-> FALSE]
    ELSE [results |-> rs,
          errors |-> Append(es, [case_no |-> case_no, error |-> outcome]),
          propagates |-> FALSE]

\* main() 1752-1900: the checkpoint at the head of an iteration, outside
\* the try, then the case
CaseIteration ==
  /\ pc = "case_loop" /\ idx <= Len(case_nos)
  /\ IF CheckDeadline(DEADLINE, now)
       THEN /\ lateCheck' = TRUE /\ Return("4")
            /\ UNCHANGED <<now, idx, results, errors, navAfterLate>>
       ELSE \E outcome \in CaseOutcomes, t \in Tick(now) :
              LET r == ProcessCase(case_nos[idx], outcome, results, errors)
              IN /\ now' = t
                 /\ navAfterLate' = (navAfterLate \/ lateCheck)
                 /\ results' = r.results
                 /\ errors' = r.errors
                 /\ UNCHANGED lateCheck
                 /\ IF r.propagates
                      THEN Propagate(outcome) /\ UNCHANGED idx
                      ELSE /\ idx' = idx + 1 /\ pc' = "case_loop"
                           /\ UNCHANGED <<exit, uncaught>>
  /\ UNCHANGED <<inputs, DEADLINE, page, lastNav, fileVars, loginVars, readyVars,
                 found, round, case_nos, alarm, outputs, written, authPending, loginFailed,
                 recoveredReady, enumerated, finalPersists>>

\* main() 1752: the for loop has gone through the whole list
LoopDoneBeforeLast(i, cs) == i >= Len(cs)
LoopDone(i, cs) == i > Len(cs)

\* main() 1606: --format
Formats == {"csv", "json", "both"}
\* main() 1902 and 1920: the overview files the format selects
Selected(fmt) ==
  (IF fmt \in {"csv", "both"} THEN {"cases_overview.csv"} ELSE {}) \cup
  (IF fmt \in {"json", "both"} THEN {"cases_overview.json"} ELSE {})

\* main() 1902-1927: the loop is over, the overview is written in the format
\* asked for and the end-of-run persist follows
WriteOutputs ==
  /\ pc = "case_loop" /\ LoopDone(idx, case_nos)
  /\ outputs' = TRUE
  /\ \E fmt \in Formats : written' = written \cup Selected(fmt)
  /\ pc' = "aw_open" /\ awCaller' = "final"
  /\ UNCHANGED <<exit, uncaught, inputs, now, DEADLINE, page, lastNav, fs, ctxVer, awPrev,
                 loginVars, readyVars, caseVars, alarm, histVars>>

\* main() 1932-1938: 1 with per-case errors, 0 without
ExitCodeZero(es) == "0"
ExitCode(es) == IF Len(es) > 0 THEN "1" ELSE "0"

\* main() 1932-1938
Finish ==
  /\ pc = "finish"
  /\ Return(ExitCode(errors))
  /\ UNCHANGED <<inputs, now, DEADLINE, page, lastNav, fileVars, loginVars, readyVars,
                 caseVars, alarm, outputs, written, histVars>>

\* main() 1939-1942: Ctrl+C anywhere inside the try
KeyboardInterrupt ==
  /\ entry = "main" /\ pc \notin {"start", "done"}
  /\ Return("130")
  \* the finally clause closes the context; the locals are gone
  /\ page' = Loading /\ ok' = FALSE /\ caller' = "none" /\ plIter' = 0
  /\ erPolls' = 0 /\ found' = <<>> /\ round' = 0
  /\ UNCHANGED <<inputs, now, DEADLINE, lastNav, fileVars, erCall, raised,
                 case_nos, idx, results, errors, alarm, outputs, written, histVars>>

Next ==
  \/ Start \/ GotoHome \/ PortalState
  \/ CallPerformLogin \/ PLEntry \/ PLLoop \/ PLInputs \/ PLSubmitted \/ PLReturnDirect
  \/ AfterLogin \/ AWOpen \/ AWWrite \/ AWRename \/ ReHome
  \/ GotoCases \/ EnsureReady \/ ERHandler \/ RecoverSession \/ ERTail
  \/ Collect \/ CaseIteration \/ WriteOutputs \/ Finish
  \/ KeyboardInterrupt

Spec == Init /\ [][Next]_vars

(* ======================== properties of the run ======================= *)
InAtomicWrite == pc \in {"aw_write", "aw_rename"}
Partial(c) == c # Absent /\ Len(c) < BlobLen

\* C1: at every point of atomic_write_storage_state, an interruption after
\* the temporary file was written fully or partly included, the session file
\* holds the complete previous blob (or is still absent) or the complete new
\* blob, never a partial one; only the rename step changes the session file,
\* and it installs the complete new blob.
C1_AtomicPersist ==
  /\ [](fs[StatePath] = Absent \/ IsBlob(fs[StatePath]))
  /\ [](InAtomicWrite => fs[StatePath] = awPrev)
  /\ [][fs'[StatePath] # fs[StatePath]
          => (pc = "aw_rename" /\ fs'[StatePath] = Blob(ctxVer))]_vars

\* C1 witness: the run was interrupted with the temporary file partly
\* written; the session file still holds the previous complete blob.
C1_Witness ==
  /\ pc = "done" /\ exit = "130"
  /\ Partial(fs[TmpPath(StatePath)]) /\ Len(fs[TmpPath(StatePath)]) >= 1
  /\ fs[StatePath] = Blob(0)

\* C2 (as claimed): once a recovery after LOGIN_REQUIRED or SESSION_EXPIRED
\* has logged in again and the repeated readiness check has passed, the run
\* goes on to enumerate the cases (unless the deadline or Ctrl+C ends it).
C2_Claim ==
  (recoveredReady /\ pc = "done" /\ exit \notin {"4", "130"}) => enumerated

\* C3 (as claimed): a successful authentication is followed by an attempt to
\* persist the session blob before the run terminates (Ctrl+C apart).
C3_Claim ==
  (pc = "done" /\ exit # "130") => ~authPending

\* C4: perform_login returns True only on a page whose URL is on the portal
\* origin and that shows neither a login-screen nor a logged-out signal;
\* after a submit it either returns True on such a page or goes round the
\* loop again, a redirect alone never makes it return.
PortalWithoutSignals(p) ==
  PORTAL \in p.url /\ AUTH \notin p.url /\ ~p.form /\ ~p.out
C4_LoginConfirmedOnly ==
  /\ []((pc = "pl_ret" /\ ok) => PortalWithoutSignals(page))
  /\ [][pc = "pl_submitted"
          => \/ (pc' = "pl_ret" /\ ok' /\ PortalWithoutSignals(page'))
             \/ (pc' = "pl_loop" /\ plIter' = plIter + 1 /\ ~ok')
             \/ (pc' = "done" /\ exit' = "130")]_vars

\* C4 witness: perform_login has returned True on the portal.
C4_Witness ==
  pc = "pl_ret" /\ ok /\ PORTAL \in page.url /\ lastNav = "signin"

\* C5 (as claimed): a run that needs a login and cannot establish one writes
\* the alarm file and ends with exit code 2 (Ctrl+C apart).
C5_Claim ==
  (pc = "done" /\ loginFailed /\ exit # "130") => (alarm /\ exit = "2")

\* C6: without a username or without a password perform_login returns False
\* before any navigation or input action, and main() calls neither
\* perform_login nor recover_session.
InLogin == pc \in {"pl_entry", "pl_loop", "pl_inputs", "pl_submitted", "pl_ret", "rs_entry"}
NoCredentials == username = "" \/ password = ""
C6_NoCredentialsNoLogin ==
  /\ []((entry = "main" /\ NoCredentials) => ~InLogin)
  /\ [][(pc = "pl_entry" /\ NoCredentials)
          => (pc' = "pl_ret" /\ ~ok' /\ page' = page /\ lastNav' = lastNav
              /\ now' = now)]_vars

\* C6 witness: a direct call without password has returned False, nothing
\* was navigated.
C6_Witness ==
  /\ entry = "perform_login" /\ pc = "done" /\ username # "" /\ password = ""
  /\ ~ok /\ lastNav = "none" /\ page = Loading

\* C7 (as claimed): after an exception in one case every later identifier
\* of the enumerated list is still processed (Ctrl+C apart).
IsProcessed(cn) ==
  \/ \E i \in 1..Len(results) : results[i].case_no = cn
  \/ \E i \in 1..Len(errors) : errors[i].case_no = cn
C7_Claim ==
  (pc = "done" /\ Len(errors) > 0 /\ exit # "130")
    => \A i \in 1..Len(case_nos) : IsProcessed(case_nos[i])

\* C7 (amended): an exception while one case is processed is caught in that
\* iteration and recorded as exactly one {case_no, error} entry, no record is
\* added, and the loop goes on with the next identifier; the later
\* identifiers are all processed unless the deadline checkpoint at the head
\* of a later iteration aborts the run (exit 4) or the user interrupts it.
C7_ErrorIsolated ==
  /\ [](exit = "uncaught" => uncaught \notin CaseOutcomes)
  /\ []((pc = "done" /\ Len(errors) > 0)
          => /\ exit \in {"1", "4", "130"}
             /\ exit = "4" => lateCheck
             /\ exit = "1" => \A i \in 1..Len(case_nos) : IsProcessed(case_nos[i]))
  /\ [][errors' # errors
          => /\ pc = "case_loop" /\ pc' = "case_loop" /\ idx' = idx + 1
             /\ \E e \in CaseOutcomes \ {"ok"} :
                  errors' = Append(errors, [case_no |-> case_nos[idx], error |-> e])
             /\ results' = results /\ exit' = "running"]_vars

\* C7 witness: the first case failed, the second was still processed and
\* the run completed with exit code 1.
C7_Witness ==
  /\ pc = "done" /\ exit = "1" /\ Len(case_nos) = 2
  /\ Len(errors) = 1 /\ errors[1].case_no = case_nos[1]
  /\ Len(results) = 1 /\ results[1].case_no = case_nos[2]

\* C8: when the case loop has finished, every enumerated identifier is in
\* exactly one of records and errors, no case_no occurs twice in the
\* records, and records plus errors are as many as the identifiers.
LoopFinished == outputs
InRecords(cn) == \E i \in 1..Len(results) : results[i].case_no = cn
InErrors(cn) == \E i \in 1..Len(errors) : errors[i].case_no = cn
C8_OneOutcomePerCase ==
  LoopFinished =>
    /\ \A i \in 1..Len(case_nos) : InRecords(case_nos[i]) # InErrors(case_nos[i])
    /\ \A i, j \in 1..Len(results) : results[i].case_no = results[j].case_no => i = j
    /\ Len(results) + Len(errors) = Len(case_nos)

\* C8 witness: the loop finished over two identifiers, one a record and one
\* an error.
C8_Witness ==
  LoopFinished /\ Len(case_nos) = 2 /\ Len(results) = 1 /\ Len(errors) = 1

\* C9 (as claimed): once a deadline checkpoint has found the deadline
\* passed, no further navigation or case processing is started and the run
\* ends with exit code 4 (Ctrl+C apart).
C9_Claim ==
  /\ ~navAfterLate
  /\ (pc = "done" /\ lateCheck /\ exit # "130") => exit = "4"

\* C10 (as claimed): a run whose readiness check raised ends before its
\* outputs are written only with exit code 2, 4 or 130; neither the
\* readiness timeout nor a driver error of the check terminates the process.
C10_Claim ==
  (pc = "done" /\ entry = "main" /\ ~outputs /\ raised # "")
    => exit \in {"2", "4", "130"}

(* ------------------------------------------------------------------ *)
\* C11: a navigation that fails with the transient abort class
\* (net::ERR_ABORTED) is never surfaced: no such error leaves main(),
\* for the home route as for the case-list route.
C11_Claim ==
  (pc = "done" /\ exit = "uncaught") => uncaught # ERR_ABORTED

(* ------------------------------------------------------------------ *)
OverviewFiles == {"cases_overview.csv", "cases_overview.json"}
C13_Claim ==
  (pc = "done" /\ exit \in {"2", "3", "4", "130"}) => written = {}
\* C13 amended: the overview is written at most once, in the one step that
\* follows the loop's last iteration, every enumerated identifier having
\* been iterated; a run that ends with 2, 3 or 4 has written none, and an
\* interrupted run (130) has written one only if the interrupt came after
\* the loop.
C13_OutputsOnceAfterLoop ==
  /\ [][written' # written =>
          /\ written = {} /\ ~outputs
          /\ pc = "case_loop" /\ idx > Len(case_nos)
          /\ Len(results) + Len(errors) = Len(case_nos)]_vars
  /\ []((pc = "done" /\ exit \in {"2", "3", "4"}) => written = {})
  /\ []((pc = "done" /\ exit = "130" /\ written # {}) => idx > Len(case_nos))
C13_Witness ==
  /\ pc = "done" /\ exit = "130" /\ written = {"cases_overview.csv"}
  /\ Len(case_nos) = 2 /\ idx = 3

(* ================== functions called on their own ===================== *)
\* A direct call of one function: entry names it, fnArgs holds its
\* arguments and fnRet its result; nothing of main() is running.
Parked(fn) ==
  /\ entry = fn /\ pc = "fn_call" /\ exit = "running" /\ uncaught = ""
  /\ cfgExists = TRUE /\ username = "" /\ password = ""
  /\ timeoutArg = 0 /\ maxArg = 0
  /\ now = Epoch /\ DEADLINE = 0 /\ page = Loading /\ lastNav = "none"
  /\ fs = [q \in Paths |-> Absent] /\ ctxVer = 1
  /\ awCaller = "none" /\ awPrev = Absent
  /\ ok = FALSE /\ caller = "none" /\ plIter = 0
  /\ erCall = 1 /\ erPolls = 0 /\ raised = ""
  /\ found = <<>> /\ round = 0 /\ case_nos = <<>> /\ idx = 1
  /\ results = <<>> /\ errors = <<>>
  /\ alarm = FALSE /\ outputs = FALSE /\ written = {}
  /\ authPending = FALSE /\ loginFailed = FALSE /\ lateCheck = FALSE
  /\ navAfterLate = FALSE /\ recoveredReady = FALSE /\ enumerated = FALSE
  /\ finalPersists = 0

\* the variables of main() other than the call itself
runVars == <<exit, uncaught, now, DEADLINE, page, lastNav, fileVars, loginVars,
             readyVars, caseVars, alarm, outputs, written, histVars>>
callVars == <<entry, cfgExists, username, password, timeoutArg, maxArg, fnArgs>>
FnReturn(value) == pc' = "fn_done" /\ fnRet' = value

(* --------------------------- redact_sensitive ------------------------- *)
\* A text is a sequence of characters; a label word counts as one
\* character, "v" is any other visible character.
TextLen == 4
RedactChars == {"Password", "PASSWORD", "Token", "Wrap", ":", " ", "\n", "v"}
RedactTexts == SeqsUpTo(RedactChars, TextLen)
\* redact_sensitive 88: the replacement's marker
MARK == "[REDACTED]"
\* \s
Ws == {" ", "\n"}
\* (?i): letter case is ignored
Fold(c) == IF c = "PASSWORD" THEN "Password" ELSE c

\* \s* (greedy): the first index at or after i that holds no white space
RECURSIVE SkipWs(_, _)
SkipWs(t, i) == IF i <= Len(t) /\ t[i] \in Ws THEN SkipWs(t, i + 1) ELSE i

\* word \s* word \s* ... word at i: the index after the last word, 0 for
\* no match
RECURSIVE MatchWords(_, _, _)
MatchWords(t, i, words) ==
  IF i > Len(t) \/ Fold(t[i]) # Head(words) THEN 0
  ELSE IF Len(words) = 1 THEN i + 1
  ELSE MatchWords(t, SkipWs(t, i + 1), Tail(words))

\* .+ from i (greedy, no newline): the index of the line's last character
RECURSIVE LineEnd(_, _)
LineEnd(t, i) == IF i < Len(t) /\ t[i + 1] # "\n" THEN LineEnd(t, i + 1) ELSE i
\* [^\s\r\n]+ from i: the index of the last character before white space
RECURSIVE WordEnd(_, _)
WordEnd(t, i) == IF i < Len(t) /\ t[i + 1] \notin Ws THEN WordEnd(t, i + 1) ELSE i
\* \s*.+$ when the white space runs to the end of the text: \s* gives back
\* characters until .+ finds one that is no newline (the last blank from
\* a on), 0 if there is none
RECURSIVE LastBlank(_, _, _)
LastBlank(t, a, j) ==
  IF j < a THEN 0 ELSE IF t[j] # "\n" THEN j ELSE LastBlank(t, a, j - 1)

NoMatch == [ok |-> FALSE, repl |-> <<>>, end |-> 0]
\* ^ under (?m)
AtLineStart(t, i) == i = 1 \/ t[i - 1] = "\n"

\* redact_sensitive 88-91: ^\s*(label\s*:\s*).+$ tried at i; the
\* replacement \1[REDACTED] keeps group 1 only, not the \s* before it
LineMatch(t, i, words) ==
  IF ~AtLineStart(t, i) THEN NoMatch
  ELSE LET s == SkipWs(t, i)
           a == MatchWords(t, s, words)
           q == SkipWs(t, a)
           v == IF q <= Len(t) THEN q ELSE LastBlank(t, a, Len(t))
       IN IF a = 0 \/ v = 0 THEN NoMatch
          ELSE [ok |-> TRUE, repl |-> Append(SubSeq(t, s, v - 1), MARK),
                end |-> LineEnd(t, v)]

\* redact_sensitive 94-96: (label\s*:\s*)([^\s\r\n]+) tried at i
InlineMatch(t, i, words) ==
  LET a == MatchWords(t, i, words)
      q == SkipWs(t, a)
  IN IF a = 0 \/ q > Len(t) THEN NoMatch
     ELSE [ok |-> TRUE, repl |-> Append(SubSeq(t, i, q - 1), MARK),
           end |-> WordEnd(t, q)]

\* re.sub from position pos on: leftmost matches, left to right, none
\* overlapping
RECURSIVE Sub(_, _, _, _)
Sub(t, pos, words, anchored) ==
  IF pos > Len(t) THEN <<>>
  ELSE LET m == IF anchored THEN LineMatch(t, pos, words)
                ELSE InlineMatch(t, pos, words)
       IN IF m.ok THEN m.repl \o Sub(t, m.end + 1, words, anchored)
          ELSE <<t[pos]>> \o Sub(t, pos + 1, words, anchored)

\* the labels of redact_sensitive 88-91 and 94-96
PASSWORD_RX == <<"Password", ":">>
PASSWORD_TOKEN_RX == <<"Password", "Token", ":">>
WRAP_TOKEN_RX == <<"Wrap", "Token", ":">>
TOKEN_RX == <<"Token", ":">>

\* redact_sensitive 78-98
RedactSensitive(text) ==
  LET t1 == Sub(text, 1, PASSWORD_RX, TRUE)
      t2 == Sub(t1, 1, PASSWORD_TOKEN_RX, TRUE)
      t3 == Sub(t2, 1, WRAP_TOKEN_RX, TRUE)
      t4 == Sub(t3, 1, TOKEN_RX, TRUE)
      t5 == Sub(t4, 1, PASSWORD_RX, FALSE)
      t6 == Sub(t5, 1, PASSWORD_TOKEN_RX, FALSE)
  IN Sub(t6, 1, WRAP_TOKEN_RX, FALSE)

\* a call redact_sensitive(text)
RedactCall ==
  /\ entry = "redact_sensitive" /\ pc = "fn_call"
  /\ FnReturn(RedactSensitive(fnArgs.text))
  /\ UNCHANGED <<callVars, runVars>>

(* ------------- main(): what one case iteration persists --------------- *)
\* where an iteration ends: with its row, or with an exception raised
\* before or after the Communications tab was opened
Stages == {"ok", "fails_before_comms", "fails_after_comms"}
CommsTexts == {t \in RedactTexts : Len(t) < TextLen}

\* main() 1755-1900: the texts one iteration writes to disk (or hands to
\* the overview) for a case whose Communications panel shows `comms`.
\* 1768-1776: the communications file and the row are made from the
\* redacted text; 1897-1898: the failure dump is page.content() as it is
\* (`dumped`: the dump's own try succeeded).
PersistedTexts(comms, stage, dumped) ==
  IF stage = "ok"
    THEN {[file |-> "communications_redacted.txt", text |-> RedactSensitive(comms)],
          [file |-> "cases_overview", text |-> RedactSensitive(comms)]}
  ELSE IF ~dumped THEN {}
  ELSE IF stage = "fails_after_comms"
    THEN {[file |-> "error.html", text |-> comms]}
  ELSE {[file |-> "error.html", text |-> <<>>]}

\* one iteration of the case loop, for one case page
CaseArtifacts ==
  /\ entry = "case_iteration" /\ pc = "fn_call"
  /\ FnReturn(PersistedTexts(fnArgs.comms, fnArgs.stage, fnArgs.dumped))
  /\ UNCHANGED <<callVars, runVars>>

InitRedact ==
  /\ fnRet = <<>>
  /\ \/ Parked("redact_sensitive") /\ fnArgs \in [text : RedactTexts]
     \/ /\ Parked("case_iteration")
        /\ fnArgs \in [comms : CommsTexts, stage : Stages, dumped : BOOLEAN]
NextRedact == RedactCall \/ CaseArtifacts
SpecRedact == InitRedact /\ [][NextRedact]_vars

(* ------------------------------------------------------------------ *)
\* C14: every persisted text with communication-panel content (the
\* communications file, the overview record, the failure dump) has been
\* redacted: redact_sensitive would leave it as it is.
C14_Claim ==
  (entry = "case_iteration" /\ pc = "fn_done") =>
    \A a \in fnRet : RedactSensitive(a.text) = a.text

(* ------------------------------------------------------------------ *)
\* the lines of a text
RECURSIVE Lines(_)
Lines(t) ==
  IF \A i \in 1..Len(t) : t[i] # "\n" THEN <<t>>
  ELSE LET k == CHOOSE i \in 1..Len(t) :
                  t[i] = "\n" /\ \A j \in 1..(i - 1) : t[j] # "\n"
       IN <<SubSeq(t, 1, k - 1)>> \o Lines(SubSeq(t, k + 1, Len(t)))
Blank(l) == \A i \in 1..Len(l) : l[i] = " "
LabelForms == {<<"Password", ":">>, <<"Token", ":">>,
               <<"Password", " ", "Token", ":">>, <<"Wrap", " ", "Token", ":">>}
\* the line is indent, label, gap, value: [ind, lab, gap] are the lengths
LabelSplits(l) ==
  {sp \in (0..Len(l)) \X (2..4) \X (0..Len(l)) :
     /\ sp[1] + sp[2] + sp[3] < Len(l)
     /\ Blank(SubSeq(l, 1, sp[1]))
     /\ [i \in 1..sp[2] |-> Fold(l[sp[1] + i])] \in LabelForms
     /\ Blank(SubSeq(l, sp[1] + sp[2] + 1, sp[1] + sp[2] + sp[3]))
     /\ l[sp[1] + sp[2] + sp[3] + 1] \notin Ws}
IsLabelLine(l) == LabelSplits(l) # {}
\* the same line with the value replaced by the marker
ValueRedacted(l) ==
  LET sp == CHOOSE x \in LabelSplits(l) : TRUE
  IN Append(SubSeq(l, 1, sp[1] + sp[2] + sp[3]), MARK)
\* C15: for an input with a line `<label>: <value>` (label at the line
\* start, after indentation only), the result has the same number of
\* lines, each such line keeps indentation and label and has only the
\* value replaced, and every line without a colon is unchanged.
C15_Claim ==
  (entry = "redact_sensitive" /\ pc = "fn_done") =>
    LET in == Lines(fnArgs.text)
        out == Lines(fnRet)
    IN (\E k \in 1..Len(in) : IsLabelLine(in[k])) =>
         /\ Len(out) = Len(in)
         /\ \A k \in 1..Len(in) :
              /\ IsLabelLine(in[k]) => out[k] = ValueRedacted(in[k])
              /\ (\A i \in 1..Len(in[k]) : in[k][i] # ":") => out[k] = in[k]

(* ------------------------------------------------------------------ *)
\* `Token: v` at i, after a visible character of the same line
MidLineToken(t, i) ==
  /\ i >= 2 /\ i + 2 <= Len(t)
  /\ t[i - 1] = "v" /\ Fold(t[i]) = "Token" /\ t[i + 1] = ":" /\ t[i + 2] = "v"
\* C16: a `Token: <value>` in the middle of a line has its value replaced
\* by the marker: none is left in the result.
C16_Claim ==
  (entry = "redact_sensitive" /\ pc = "fn_done"
     /\ \E i \in 1..Len(fnArgs.text) : MidLineToken(fnArgs.text, i)) =>
    \A j \in 1..Len(fnRet) : ~MidLineToken(fnRet, j)

(* -------------------- collect_case_numbers, on its own ---------------- *)
\* the identifiers a list can show, and what one scan of the page returns
ScanIds == CaseIds \cup {"5000003"}
Scans == SeqsUpTo(ScanIds \cup {""}, MaxTexts)
MaxCasesArgs == 0..2

\* collect_case_numbers 1395: `for _ in range(15)`: the rounds are counted,
\* whether a round found anything (`grew`) is not looked at
StopScanningWhenIdle(rnd, grew) == rnd >= MaxRounds \/ ~grew
StopScanning(rnd, grew) == rnd >= MaxRounds

\* collect_case_numbers 1395-1429: one round of a direct call.  fnRet
\* keeps the round's scan, whether it added an identifier, whether some
\* round so far added none, and the value returned.
CollectCall ==
  /\ entry = "collect_case_numbers" /\ pc = "fn_call"
  /\ \E texts \in Scans, paused \in BOOLEAN :
       LET r == ScanTexts(found, texts, fnArgs.max_cases)
           grew == Len(r.found) > Len(found)
           seenSoFar == [texts |-> texts, grew |-> grew,
                         idled |-> fnRet.idled \/ ~grew, value |-> <<>>]
       IN /\ found' = r.found
          /\ IF r.full
               THEN /\ pc' = "fn_done" /\ round' = round
                    /\ fnRet' = [seenSoFar EXCEPT !.value = r.found]
               ELSE IF ~paused
                 THEN /\ pc' = "fn_raised" /\ round' = round
                      /\ fnRet' = seenSoFar
                 ELSE /\ round' = round + 1
                      /\ IF StopScanning(round + 1, grew)
                           THEN /\ pc' = "fn_done"
                                /\ fnRet' = [seenSoFar EXCEPT !.value = r.found]
                           ELSE pc' = "fn_call" /\ fnRet' = seenSoFar
  /\ UNCHANGED <<callVars, exit, uncaught, now, DEADLINE, page, lastNav, fileVars,
                 loginVars, readyVars, case_nos, idx, results, errors, alarm,
                 outputs, written, histVars>>

(* ------------------------ largest_visible_locator --------------------- *)
\* What a selector's first match is: not there or not visible (or the
\* driver raised, 149 and 162-163), or visible with its bounding box;
\* NoBox is a box that is None or could not be read (152-155).
MaxSelectors == 2
Sizes == 0..2
NoBox == [known |-> FALSE, width |-> 0, height |-> 0]
Boxes == {NoBox} \cup [known : {TRUE}, width : Sizes, height : Sizes]
Candidates == {[visible |-> FALSE, box |-> NoBox]} \cup [visible : {TRUE}, box : Boxes]
SelectorLists == SeqsUpTo(Candidates, MaxSelectors)

\* largest_visible_locator 156-158: a missing box or a zero side gives 0
BoxArea(box) ==
  IF box.known /\ box.width # 0 /\ box.height # 0
    THEN box.width * box.height ELSE 0

\* largest_visible_locator 159: `if area > best_area`
BetterOrEqual(area, best_area) == area >= best_area
Better(area, best_area) == area > best_area

\* largest_visible_locator 144-164: the loop from selector i on; best is
\* the index of the candidate kept so far (0: None), best_area starts at -1
RECURSIVE LargestFrom(_, _, _, _)
LargestFrom(cands, i, best, best_area) ==
  IF i > Len(cands) THEN best
  ELSE IF ~cands[i].visible THEN LargestFrom(cands, i + 1, best, best_area)
  ELSE LET area == BoxArea(cands[i].box)
       IN IF Better(area, best_area)
            THEN LargestFrom(cands, i + 1, i, area)
            ELSE LargestFrom(cands, i + 1, best, best_area)
LargestVisibleLocator(selector_list) == LargestFrom(selector_list, 1, 0, -1)

\* a call largest_visible_locator(page, selector_list)
LargestCall ==
  /\ entry = "largest_visible_locator" /\ pc = "fn_call"
  /\ FnReturn(LargestVisibleLocator(fnArgs.selector_list))
  /\ UNCHANGED <<callVars, runVars>>

(* ------------------------ infer_requested_actions --------------------- *)
\* A text is the set of the phrases it contains; the upper-case phrases
\* stand for any other letter case.  Where the code tests alternatives of
\* one rule, one phrase stands for them: "log file request" for the log
\* phrases of 1319, "led" for those of 1325, "onsite service" for the
\* single phrases of 1329.
StatusPhrases == {"approve", "APPROVE", "closure", "complete action plan",
                  "in progress", "awaiting customer action"}
CommsPhrases == {"log file request", "reply all", "led", "onsite service",
                 "dispatch", "engineer", "in progress"}
\* infer_requested_actions 1301-1302: .lower()
KeepCase(text) == text
LowerText(text) == {IF ph = "APPROVE" THEN "approve" ELSE ph : ph \in text}

ACT_CLOSE == "Bevestigen dat de case opgelost is en mag afgesloten worden (Approve case closure)."
ACT_PLAN == "Action plan afronden en bevestigen in HPE portal (Complete action plan)."
ACT_AHS == "AHS / Active Health System log genereren en uploaden naar HPE dropbox (HPRC)."
ACT_REPLY == "Na upload: Reply All op HPE mail/thread om te bevestigen dat logs klaarstaan."
ACT_ILO == "Screenshot iLO Storage tab of foto fysieke disk/LEDs toevoegen."
ACT_ONSITE == <<"Check Onsite Service tab voor planning/status (task ID, scheduling status, latest service start).",
                "Zorg dat toegang/site contact klopt; bereid interventie/onderdelen/remote access voor.">>
ACT_FOLLOW == "Opvolgen: check laatste HPE update; reageer enkel als HPE iets vraagt."
ACT_AWAIT == "Customer action vereist: check laatste HPE communicatie voor exacte vraag."
ACT_MANUAL == "Manuele check Communications nodig."

SUM_CLOSE == "HPE wacht op goedkeuring om case te sluiten."
SUM_PLAN == "HPE wacht op completion van het action plan."
SUM_LOGS == "HPE vraagt logbestanden (AHS) + eventueel iLO/disk info om diagnose verder te zetten."
SUM_ONSITE == "HPE onsite interventie/dispatch loopt (technieker gepland/onderweg)."
SUM_FOLLOW == "Case is in progress bij HPE (lopende opvolging, geen duidelijke customer action gedetecteerd)."
SUM_AWAIT == "Case staat op Awaiting Customer Action."
SUM_MANUAL == "Onvoldoende signalen om vraag automatisch te bepalen."

\* infer_requested_actions 1304-1306: the result before any rule
NoRule == [category |-> "UNKNOWN", summary |-> "", actions |-> <<>>]

\* infer_requested_actions 1314-1326: the two rules that add actions
\* without returning
AfterPlanUnnamed(st) ==
  IF "complete action plan" \in st
    THEN [category |-> "UNKNOWN", summary |-> SUM_PLAN, actions |-> <<ACT_PLAN>>]
    ELSE NoRule
AfterPlan(st) ==
  IF "complete action plan" \in st
    THEN [category |-> "ACTION_PLAN", summary |-> SUM_PLAN, actions |-> <<ACT_PLAN>>]
    ELSE NoRule
LogActions(c) ==
  <<ACT_AHS>> \o (IF "reply all" \in c THEN <<ACT_REPLY>> ELSE <<>>)
              \o (IF "led" \in c THEN <<ACT_ILO>> ELSE <<>>)
AfterLogsReplacing(st, c) ==
  IF "log file request" \in c
    THEN [category |-> "LOG_REQUEST", summary |-> SUM_LOGS, actions |-> LogActions(c)]
    ELSE AfterPlan(st)
AfterLogs(st, c) ==
  LET r == AfterPlan(st)
  IN IF "log file request" \in c
       THEN [category |-> "LOG_REQUEST", summary |-> SUM_LOGS,
             actions |-> r.actions \o LogActions(c)]
       ELSE r

\* infer_requested_actions 1328-1351: the rules tried while no action has
\* been added, in the order of the code
OnsitePhrasing(c) == "onsite service" \in c \/ ("dispatch" \in c /\ "engineer" \in c)
InProgressFirst(st, c) ==
  IF "in progress" \in st \/ "in progress" \in c
    THEN [category |-> "IN_PROGRESS", summary |-> SUM_FOLLOW, actions |-> <<ACT_FOLLOW>>]
  ELSE IF OnsitePhrasing(c)
    THEN [category |-> "ONSITE_SERVICE", summary |-> SUM_ONSITE, actions |-> ACT_ONSITE]
  ELSE IF "awaiting customer action" \in st
    THEN [category |-> "AWAITING", summary |-> SUM_AWAIT, actions |-> <<ACT_AWAIT>>]
  ELSE [category |-> "UNKNOWN", summary |-> SUM_MANUAL, actions |-> <<ACT_MANUAL>>]
NoActionRules(st, c) ==
  IF OnsitePhrasing(c)
    THEN [category |-> "ONSITE_SERVICE", summary |-> SUM_ONSITE, actions |-> ACT_ONSITE]
  ELSE IF "in progress" \in st \/ "in progress" \in c
    THEN [category |-> "IN_PROGRESS", summary |-> SUM_FOLLOW, actions |-> <<ACT_FOLLOW>>]
  ELSE IF "awaiting customer action" \in st
    THEN [category |-> "AWAITING", summary |-> SUM_AWAIT, actions |-> <<ACT_AWAIT>>]
  ELSE [category |-> "UNKNOWN", summary |-> SUM_MANUAL, actions |-> <<ACT_MANUAL>>]

\* infer_requested_actions 1300-1353: category, summary and actions
InferRequestedActions(status, comms) ==
  LET st == LowerText(status)
      c == LowerText(comms)
      r == AfterLogs(st, c)
  IN IF "approve" \in st /\ "closure" \in st
       THEN [category |-> "CLOSE_APPROVAL", summary |-> SUM_CLOSE,
             actions |-> <<ACT_CLOSE>>]
     ELSE IF r.actions # <<>> THEN r
     ELSE NoActionRules(st, c)

\* a call infer_requested_actions(status, comms)
InferCall ==
  /\ entry = "infer_requested_actions" /\ pc = "fn_call"
  /\ FnReturn(InferRequestedActions(fnArgs.status, fnArgs.comms))
  /\ UNCHANGED <<callVars, runVars>>

(* -------------------------- open_case_by_number ----------------------- *)
\* The identifier was returned by collect_case_numbers, whose locator at
\* 1398 matches in the whole document.  `inside` are the candidates of
\* case_list_container_any whose element contains the identifier's text;
\* `click` is what wait_for and click give on a target that exists.  The
\* search box of 1446-1454 is typed into when there is one, inside
\* try/except, and changes neither the scope nor the locator.
ClickResults == {"ok", "error"}

\* first_visible_locator 100-108: the index of the first visible
\* candidate, 0 for None
FirstVisibleLocator(selector_list) ==
  IF \A i \in 1..Len(selector_list) : ~selector_list[i].visible THEN 0
  ELSE CHOOSE i \in 1..Len(selector_list) :
         /\ selector_list[i].visible
         /\ \A j \in 1..(i - 1) : ~selector_list[j].visible

\* open_case_by_number 1443 and 1456: the scope of the target locator is
\* the container if there is one, else the page
InScope(container, inside) == container = 0 \/ container \in inside

\* open_case_by_number 1441-1466: "opened", or the RuntimeError of 1461
OpenCaseByNumber(selector_list, inside, click) ==
  IF InScope(FirstVisibleLocator(selector_list), inside) /\ click = "ok"
    THEN "opened"
    ELSE "Could not click case in list"

\* a call open_case_by_number(page, cfg, case_no)
OpenCall ==
  /\ entry = "open_case_by_number" /\ pc = "fn_call"
  /\ LET r == OpenCaseByNumber(fnArgs.selector_list, fnArgs.inside, fnArgs.click)
     IN /\ fnRet' = r
        /\ pc' = IF r = "opened" THEN "fn_done" ELSE "fn_raised"
  /\ UNCHANGED <<callVars, runVars>>

InitFn ==
  \/ /\ Parked("open_case_by_number")
     /\ fnArgs \in [selector_list : SelectorLists,
                    inside : SUBSET (1..MaxSelectors),
                    click : ClickResults]
     /\ fnArgs.inside \subseteq 1..Len(fnArgs.selector_list)
     /\ fnRet = <<>>
  \/ /\ Parked("collect_case_numbers")
     /\ fnArgs \in [max_cases : MaxCasesArgs]
     /\ fnRet = [texts |-> <<>>, grew |-> FALSE, idled |-> FALSE, value |-> <<>>]
  \/ /\ Parked("largest_visible_locator")
     /\ fnArgs \in [selector_list : SelectorLists]
     /\ fnRet = <<>>
  \/ /\ Parked("infer_requested_actions")
     /\ fnArgs \in [status : SUBSET StatusPhrases, comms : SUBSET CommsPhrases]
     /\ fnRet = <<>>
NextFn == CollectCall \/ LargestCall \/ InferCall \/ OpenCall
SpecFn == InitFn /\ [][NextFn]_vars

(* ------------------------------------------------------------------ *)
InCollect == entry = "collect_case_numbers"
NoDuplicates(q) == \A i, j \in 1..Len(q) : q[i] = q[j] => i = j
IsPrefix(a, b) == Len(a) <= Len(b) /\ \A i \in 1..Len(a) : b[i] = a[i]
Occurs(x, q) == \E i \in 1..Len(q) : q[i] = x
FirstAt(x, q) == CHOOSE i \in 1..Len(q) : q[i] = x /\ \A j \in 1..(i - 1) : q[j] # x
\* C17: the result holds no identifier twice; a round appends to it the
\* identifiers of its scan that were not yet there, in the order of their
\* first occurrence; with max_cases > 0 the call returns as soon as the
\* result holds max_cases identifiers, taking the first new ones only, and
\* never holds more; with max_cases = 0 every observed identifier is kept.
C17_DedupFirstSeen ==
  /\ [](InCollect =>
          /\ NoDuplicates(found) /\ ~Occurs("", found)
          /\ (fnArgs.max_cases > 0 => Len(found) <= fnArgs.max_cases)
          /\ (pc = "fn_done" => fnRet.value = found))
  /\ [][(InCollect /\ pc = "fn_call") =>
          LET texts == fnRet'.texts
              max == fnArgs.max_cases
              added == SubSeq(found', Len(found) + 1, Len(found'))
              full == max > 0 /\ Len(found') >= max
          IN /\ IsPrefix(found, found')
             /\ \A k \in 1..Len(added) :
                  /\ Occurs(added[k], texts) /\ ~Occurs(added[k], found)
                  /\ \A l \in 1..(k - 1) :
                       FirstAt(added[l], texts) < FirstAt(added[k], texts)
             /\ full => pc' = "fn_done"
             /\ \A i \in 1..Len(texts) :
                  (/\ texts[i] # ""
                   /\ ~full \/ (added # <<>> /\ i < FirstAt(added[Len(added)], texts)))
                    => Occurs(texts[i], found')]_vars
C17_Witness ==
  /\ InCollect /\ pc = "fn_done" /\ fnArgs.max_cases = 0
  /\ found = <<"5000001", "5000002", "5000003">>
  /\ fnRet.texts = <<"5000001", "5000003">>

(* ------------------------------------------------------------------ *)
\* C18: a call never runs more than the fixed number of rounds, each round
\* either ends the call or is counted; the call returns only when the
\* rounds are used up or max_cases is reached, not because a round found
\* nothing new, and it runs no further round once the rounds are used up,
\* whatever the last round found.
C18_RoundBounded ==
  /\ [](InCollect =>
          /\ round <= MaxRounds
          /\ (round = MaxRounds => pc # "fn_call")
          /\ (pc = "fn_done" =>
                \/ round = MaxRounds
                \/ (fnArgs.max_cases > 0 /\ Len(found) >= fnArgs.max_cases)))
  /\ [][(InCollect /\ pc = "fn_call") =>
          (pc' # "fn_call" \/ round' = round + 1)]_vars
C18_Witness ==
  /\ InCollect /\ pc = "fn_done" /\ round = MaxRounds /\ fnArgs.max_cases = 0
  /\ fnRet.idled /\ fnRet.grew

(* ------------------------------------------------------------------ *)
VisibleAt(l, i) == l[i].visible
\* C19: the result is none exactly when no candidate is visible; otherwise
\* it is a visible candidate whose area no visible candidate exceeds and
\* no earlier visible candidate equals (a candidate without a bounding box
\* counts with area 0).
C19_LargestVisible ==
  (entry = "largest_visible_locator" /\ pc = "fn_done") =>
    LET l == fnArgs.selector_list
    IN /\ fnRet = 0 <=> (\A i \in 1..Len(l) : ~VisibleAt(l, i))
       /\ fnRet # 0 =>
            /\ fnRet \in 1..Len(l) /\ VisibleAt(l, fnRet)
            /\ \A i \in 1..Len(l) :
                 VisibleAt(l, i) =>
                   /\ BoxArea(l[i].box) <= BoxArea(l[fnRet].box)
                   /\ (i < fnRet => BoxArea(l[i].box) < BoxArea(l[fnRet].box))
C19_Witness ==
  /\ entry = "largest_visible_locator" /\ pc = "fn_done" /\ fnRet = 2
  /\ VisibleAt(fnArgs.selector_list, 1)
  /\ BoxArea(fnArgs.selector_list[1].box) = 1

(* ------------------------------------------------------------------ *)
Approval(status) ==
  /\ status \cap {"approve", "APPROVE"} # {}
  /\ "closure" \in status
\* C20: a status that contains "approve" and "closure", in any letter
\* case, gives category CLOSE_APPROVAL with the one closure action and
\* nothing else, whatever the communication text holds.
C20_CloseApprovalFirst ==
  (entry = "infer_requested_actions" /\ pc = "fn_done" /\ Approval(fnArgs.status)) =>
    /\ fnRet.category = "CLOSE_APPROVAL"
    /\ fnRet.actions = <<ACT_CLOSE>>
C20_Witness ==
  /\ entry = "infer_requested_actions" /\ pc = "fn_done"
  /\ fnArgs.status = {"APPROVE", "closure", "complete action plan"}
  /\ {"log file request", "in progress"} \subseteq fnArgs.comms
  /\ fnRet.category = "CLOSE_APPROVAL"

(* ============ main(): the record of one case, 1778-1887 =============== *)
(* ------------- main(): onsite enrichment and override ----------------- *)
\* The onsite fields are modelled by the set of the keys that hold a
\* non-empty value.  extract_onsite_from_comms 1175-1188 can fill the first
\* three, extract_onsite_kv 1199-1209 the last three.
OnsiteCommsKeys == {"onsite_engineer", "onsite_task_ref", "onsite_task_id"}
OnsiteTabKeys == {"onsite_task_id", "onsite_scheduling_status",
                  "onsite_latest_service_start"}
\* main() 1822-1831: the keys whose value turns IN_PROGRESS into ONSITE_SERVICE
EnrichmentKeysTabOnly == OnsiteTabKeys
EnrichmentKeys == OnsiteCommsKeys \cup OnsiteTabKeys

\* The communication text of a case, as the set of its phrases: "onsite"
\* is the bare word, in a text that has none of the onsite phrases of 1329.
OnsiteStatusPhrases == {"in progress", "complete action plan", "approve",
                        "closure", "awaiting customer action"}
OnsiteCommsPhrases == {"onsite", "onsite service", "in progress",
                       "log file request"}
\* page.get_by_role("tab", name=Onsite Service).count(): 0, more, or it raises
TabStates == {"none", "tab", "error"}

\* extract_onsite_from_comms 1159-1191: nothing unless the text says
\* "onsite" (or "on the way to your location"); `matched` are the keys
\* whose pattern matches the text
ExtractOnsiteFromComms(comms, matched) ==
  IF LowerText(comms) \cap {"onsite", "onsite service"} = {}
    THEN [detected |-> FALSE, keys |-> {}]
    ELSE [detected |-> TRUE, keys |-> matched]

\* main() 1822-1831: the test that replaces category, summary and actions
OverridesAnyCategory(category, onsite_info) ==
  onsite_info.keys \cap EnrichmentKeys # {}
Overrides(category, onsite_info) ==
  category = "IN_PROGRESS" /\ onsite_info.keys \cap EnrichmentKeys # {}

\* main() 1793-1837: the classifier's category, the onsite fields and the
\* category and actions of the record.  `subject_onsite`: the selected
\* message's subject contains "onsite"; `panel`: the keys that
\* extract_onsite_kv finds in the Onsite Service panel.
ClassifyCase(status, comms, matched, subject_onsite, tab, panel) ==
  LET r == InferRequestedActions(status, comms)
      fromComms == ExtractOnsiteFromComms(comms, matched)
      hinted == subject_onsite \/ fromComms.detected \/ r.category = "ONSITE_SERVICE"
      sawTab == (~hinted) /\ tab = "tab"
      onsite_hint == hinted \/ sawTab
      onsite_info ==
        [detected |-> fromComms.detected \/ sawTab,
         keys |-> fromComms.keys
                  \cup (IF onsite_hint /\ tab = "tab" THEN panel ELSE {})]
  IN IF Overrides(r.category, onsite_info)
       THEN [inferred |-> r.category, category |-> "ONSITE_SERVICE",
             summary |-> SUM_ONSITE,
             actions |-> ACT_ONSITE, onsite |-> onsite_info]
       ELSE [inferred |-> r.category, category |-> r.category,
             summary |-> r.summary,
             actions |-> r.actions, onsite |-> onsite_info]

\* the classification part of one iteration of the case loop
ClassifyCall ==
  /\ entry = "case_category" /\ pc = "fn_call"
  /\ FnReturn(ClassifyCase(fnArgs.status, fnArgs.comms, fnArgs.matched,
                           fnArgs.subject_onsite, fnArgs.tab, fnArgs.panel))
  /\ UNCHANGED <<callVars, runVars>>

InitClassify ==
  /\ Parked("case_category")
  /\ fnArgs \in [status : SUBSET OnsiteStatusPhrases,
                 comms : SUBSET OnsiteCommsPhrases,
                 matched : SUBSET OnsiteCommsKeys,
                 subject_onsite : BOOLEAN,
                 tab : TabStates,
                 panel : SUBSET OnsiteTabKeys]
  /\ fnArgs.tab # "tab" => fnArgs.panel = {}
  /\ fnRet = <<>>

(* ---------------------------- split_messages -------------------------- *)
\* A communication text is a sequence of pieces: a timestamp in the form of
\* TS_RX 870, a word, a blank, a line end.  TS_BAD has the form of TS_RX but
\* names no date.
MsgLen == 5
TS_A == "Jan 1, 2024, 1:00 PM"
TS_B == "Jan 2, 2024, 1:00 PM"
TS_BAD == "Jan 45, 2024, 1:00 PM"
Timestamps == {TS_A, TS_B, TS_BAD}
Space == {" ", "\n", "\r"}
SplitChars == {TS_A, TS_B, "w", " ", "\r", "\n"}
SplitTexts == SeqsUpTo(SplitChars, MsgLen)

\* split_messages 929: text.replace("\r\n", "\n").replace("\r", "\n")
RECURSIVE Normalize(_)
Normalize(t) ==
  IF t = <<>> THEN <<>>
  ELSE IF Head(t) = "\r"
    THEN IF Len(t) > 1 /\ t[2] = "\n"
           THEN <<"\n">> \o Normalize(Tail(Tail(t)))
           ELSE <<"\n">> \o Normalize(Tail(t))
  ELSE <<Head(t)>> \o Normalize(Tail(t))

\* str.strip()
RECURSIVE StripLeft(_)
StripLeft(t) == IF t # <<>> /\ Head(t) \in Space THEN StripLeft(Tail(t)) ELSE t
RECURSIVE StripRight(_)
StripRight(t) ==
  IF t # <<>> /\ t[Len(t)] \in Space THEN StripRight(SubSeq(t, 1, Len(t) - 1)) ELSE t
StripText(t) == StripRight(StripLeft(t))

\* TS_RX 870 matches at piece i: a timestamp with a word boundary on both
\* sides (\b), so not one glued to a word or to another timestamp
IsHit(t, i) ==
  /\ t[i] \in Timestamps
  /\ i > 1 => t[i - 1] \in Space
  /\ i < Len(t) => t[i + 1] \in Space

\* split_messages 930: the start positions of the matches, left to right
RECURSIVE HitsFrom(_, _)
HitsFrom(t, i) ==
  IF i > Len(t) THEN <<>>
  ELSE (IF IsHit(t, i) THEN <<i>> ELSE <<>>) \o HitsFrom(t, i + 1)

\* split_messages 935: where the block of hit k ends
BlockEndAtText(hits, k, norm) == Len(norm) + 1
BlockEnd(hits, k, norm) ==
  IF k + 1 <= Len(hits) THEN hits[k + 1] ELSE Len(norm) + 1

\* split_messages 926-938
SplitMessages(text) ==
  LET norm == Normalize(text)
      hits == HitsFrom(norm, 1)
  IN [k \in 1..Len(hits) |->
        [ts |-> norm[hits[k]],
         block |-> StripText(SubSeq(norm, hits[k], BlockEnd(hits, k, norm) - 1))]]

\* a call split_messages(text)
SplitCall ==
  /\ entry = "split_messages" /\ pc = "fn_call"
  /\ FnReturn(SplitMessages(fnArgs.text))
  /\ UNCHANGED <<callVars, runVars>>

InitSplit ==
  /\ Parked("split_messages")
  /\ fnArgs \in [text : SplitTexts]
  /\ fnRet = <<>>

(* ------------------------- pick_last_hpe_message ---------------------- *)
PickLen == 3
\* a support-sender marker of 965 and the subject marker of 966
HPE_MARK == "HPE Support Engineer"
SUBJECT == "Subject"
\* what follows the timestamp in a block
Bodies == {<<>>, <<" ", HPE_MARK>>, <<" ", SUBJECT>>,
           <<" ", HPE_MARK, " ", SUBJECT>>}
PickBlocks == {[ts |-> ts, block |-> <<ts>> \o b] : ts \in Timestamps, b \in Bodies}
BlockLists == SeqsUpTo(PickBlocks, PickLen)
\* pick_last_hpe_message returns None
NoBlock == [ts |-> "", block |-> <<>>]

\* parse_ts 951-957: the date as a day number, NoDate for None
NoDate == -1
DateMin == 0
ParseTs(ts) == IF ts = TS_A THEN 1 ELSE IF ts = TS_B THEN 2 ELSE NoDate

\* pick_last_hpe_message 964-967
Contains(block, piece) == \E i \in 1..Len(block) : block[i] = piece
Qualifies(block) == Contains(block, HPE_MARK) /\ Contains(block, SUBJECT)

\* pick_last_hpe_message 962-971: the loop over the blocks
RECURSIVE PickQualified(_, _, _, _)
PickQualified(blocks, i, best, best_dt) ==
  IF i > Len(blocks) THEN best
  ELSE LET dt == ParseTs(blocks[i].ts)
       IN IF /\ Qualifies(blocks[i].block)
             /\ dt # NoDate
             /\ (best_dt = NoDate \/ dt > best_dt)
            THEN PickQualified(blocks, i + 1, blocks[i], dt)
            ELSE PickQualified(blocks, i + 1, best, best_dt)

\* the URLs a text can hold (extract_key_links 986)
URL_HPRC == "https://hprc.hpe.com/up"
URL_SUPPORT == "https://support.hpe.com/doc"
URL_OTHER == "https://example.com/page"
LinkUrls == {URL_HPRC, URL_SUPPORT, URL_OTHER}

\* the order of Python strings on the pieces: none is a prefix of another
PieceRank(c) ==
  CASE c = "\n" -> 1 [] c = "\r" -> 2 [] c = " " -> 3 [] c = HPE_MARK -> 4
    [] c = TS_A -> 5 [] c = TS_B -> 6 [] c = TS_BAD -> 7 [] c = SUBJECT -> 8
    [] c = URL_OTHER -> 9 [] c = URL_HPRC -> 10 [] c = URL_SUPPORT -> 11
    [] OTHER -> 12
StrLess(a, b) ==
  \E k \in 1..(Len(b)) :
    /\ \A j \in 1..(k - 1) : j <= Len(a) /\ a[j] = b[j]
    /\ k - 1 <= Len(a)
    /\ (k > Len(a) \/ PieceRank(a[k]) < PieceRank(b[k]))
\* pick_last_hpe_message 974-977: the tuples (dt, ts, block) as sort orders them
Scored(b) == LET dt == ParseTs(b.ts)
             IN [dt |-> IF dt = NoDate THEN DateMin ELSE dt, ts |-> b.ts, block |-> b.block]
ScoreLess(x, y) ==
  \/ x.dt < y.dt
  \/ x.dt = y.dt /\ StrLess(<<x.ts>>, <<y.ts>>)
  \/ x.dt = y.dt /\ x.ts = y.ts /\ StrLess(x.block, y.block)

\* pick_last_hpe_message 959-980
PickLastHpeMessage(blocks) ==
  LET best == PickQualified(blocks, 1, NoBlock, NoDate)
  IN IF best = NoBlock /\ blocks # <<>>
       THEN LET scored == {Scored(blocks[i]) : i \in 1..Len(blocks)}
                top == CHOOSE x \in scored : \A y \in scored : ~ScoreLess(x, y)
            IN [ts |-> top.ts, block |-> top.block]
       ELSE best

\* a call pick_last_hpe_message(blocks)
PickCall ==
  /\ entry = "pick_last_hpe_message" /\ pc = "fn_call"
  /\ FnReturn(PickLastHpeMessage(fnArgs.blocks))
  /\ UNCHANGED <<callVars, runVars>>

InitPick ==
  /\ Parked("pick_last_hpe_message")
  /\ fnArgs \in [blocks : BlockLists]
  /\ fnRet = <<>>

(* ---------------------------- extract_subject ------------------------- *)
\* A block is given as its lines (block.splitlines()); " " is a line of
\* blanks only.  A block of the model: at most one line, the Subject line,
\* `gap` empty or blank lines, a text line, and at most a second Subject
\* line with its own text.
MaxGap == 13
SUBJECT_RANGE == 12
BlankLines == {"", " "}
SubjectBlocks ==
  {pre \o <<SUBJECT>> \o [i \in 1..gap |-> b] \o <<"x">> \o post :
     pre \in {<<>>, <<"w">>, <<" ">>}, gap \in 0..MaxGap, b \in BlankLines,
     post \in {<<>>, <<SUBJECT, "y">>}}

\* extract_subject 943: l.strip()
StripLine(l) == IF l \in BlankLines THEN "" ELSE l

\* extract_subject 946-948: the first non-empty line of range(i + 1,
\* min(i + 12, len(lines))), "" if there is none
FirstInRange(lines, i) ==
  LET last == IF i + SUBJECT_RANGE <= Len(lines) THEN i + SUBJECT_RANGE - 1
              ELSE Len(lines)
      hits == {j \in (i + 1)..last : StripLine(lines[j]) # ""}
  IN IF hits = {} THEN ""
     ELSE StripLine(lines[CHOOSE j \in hits : \A o \in hits : j <= o])

\* extract_subject 944-949: the Subject lines in turn, from line i on
RECURSIVE SubjectFrom(_, _)
SubjectFrom(lines, i) ==
  IF i > Len(lines) THEN ""
  ELSE IF StripLine(lines[i]) = SUBJECT /\ FirstInRange(lines, i) # ""
    THEN FirstInRange(lines, i)
  ELSE SubjectFrom(lines, i + 1)

\* extract_subject 940-949
ExtractSubject(lines) == SubjectFrom(lines, 1)

\* a call extract_subject(block)
SubjectCall ==
  /\ entry = "extract_subject" /\ pc = "fn_call"
  /\ FnReturn(ExtractSubject(fnArgs.block))
  /\ UNCHANGED <<callVars, runVars>>

InitSubject ==
  /\ Parked("extract_subject")
  /\ fnArgs \in [block : SubjectBlocks]
  /\ fnRet = <<>>

(* --------------------------- parse_line_pairs ------------------------- *)
\* A text is given as its lines (886), a line as its pieces: a label of
\* FIELD_LABELS 50-61 in some letter case, a colon, a blank, a value.
MaxLines == 4
\* the dashes of a placeholder line: the hyphen, the em dash (U+2014) as a
\* page shows it, and the three characters U+00E2 U+20AC U+201D that the
\* source has at 917
HYPHEN == "-"
EM_DASH == "(U+2014)"
DASH_917 == "(U+00E2)(U+20AC)(U+201D)"
LineForms ==
  {<<>>, <<"Status">>, <<"Case Status">>, <<"Severity">>,
   <<"Status", ":", " ", "a">>, <<"CASE STATUS", ":", "b">>, <<"c">>,
   <<HYPHEN>>, <<EM_DASH>>}
PairTexts == SeqsUpTo(LineForms, MaxLines)
FieldKeys == {"status", "severity"}
\* the result: the value of a field, <<>> for a field that is not in it
NoFields == [k \in FieldKeys |-> <<>>]

\* parse_line_pairs 890-893: label_map, looked up with .lower(); "" for None
LabelMap(l) ==
  IF Len(l) # 1 THEN ""
  ELSE IF l[1] \in {"Status", "Case Status", "CASE STATUS"} THEN "status"
  ELSE IF l[1] = "Severity" THEN "severity"
  ELSE ""

\* what a line gives: a field and its value, or nothing
NoPair == [key |-> "", val |-> <<>>]

\* parse_line_pairs 900-904: "Label: value" on one line
SameLine(ln) ==
  IF ~Contains(ln, ":") THEN NoPair
  ELSE LET c == CHOOSE i \in 1..Len(ln) : ln[i] = ":" /\ \A j \in 1..(i - 1) : ln[j] # ":"
           left == StripText(SubSeq(ln, 1, c - 1))
           right == StripText(SubSeq(ln, c + 1, Len(ln)))
       IN IF LabelMap(left) # "" /\ right # <<>>
            THEN [key |-> LabelMap(left), val |-> right]
            ELSE NoPair

\* parse_line_pairs 906-922: a label line, its value on the next non-empty line
NextLine(lines, i) ==
  LET later == {j \in (i + 1)..Len(lines) : StripText(lines[j]) # <<>>}
  IN IF later = {} THEN <<>>
     ELSE StripText(lines[CHOOSE j \in later : \A o \in later : j <= o])
LabelLine(lines, i) ==
  LET key == LabelMap(StripText(lines[i]))
      val == NextLine(lines, i)
  IN IF key = "" \/ val = <<>> \/ val \in {<<HYPHEN>>, <<DASH_917>>}
        \/ LabelMap(val) # ""
       THEN NoPair
       ELSE [key |-> key, val |-> val]

\* dict.setdefault
SetAlways(out, pair) ==
  IF pair = NoPair THEN out ELSE [out EXCEPT ![pair.key] = pair.val]
SetDefault(out, pair) ==
  IF pair = NoPair \/ out[pair.key] # <<>> THEN out
  ELSE [out EXCEPT ![pair.key] = pair.val]

\* parse_line_pairs 895-922: the loop over the lines
RECURSIVE ParseFrom(_, _, _)
ParseFrom(lines, i, out) ==
  IF i > Len(lines) THEN out
  ELSE ParseFrom(lines, i + 1,
                 SetDefault(SetDefault(out, SameLine(StripText(lines[i]))),
                            LabelLine(lines, i)))

\* parse_line_pairs 879-924
ParseLinePairs(lines) == ParseFrom(lines, 1, NoFields)

\* a call parse_line_pairs(text)
PairsCall ==
  /\ entry = "parse_line_pairs" /\ pc = "fn_call"
  /\ FnReturn(ParseLinePairs(fnArgs.text))
  /\ UNCHANGED <<callVars, runVars>>

InitPairs ==
  /\ Parked("parse_line_pairs")
  /\ fnArgs \in [text : PairTexts]
  /\ fnRet = <<>>

(* ------------------- extract_key_links, main(): key links ------------- *)
MaxMessages == 2
KEY_LINK_LIMIT == 8

\* extract_key_links 993-1003: rank(u)
LinkRank(u) ==
  CASE u = URL_HPRC -> 0 [] u = URL_SUPPORT -> 3 [] OTHER -> 4

\* extract_key_links 987-991: the URLs of the text, first occurrences only
RECURSIVE SeenUrls(_, _)
SeenUrls(t, seen) ==
  IF t = <<>> THEN seen
  ELSE SeenUrls(Tail(t),
                IF Head(t) \in LinkUrls /\ ~Contains(seen, Head(t))
                  THEN Append(seen, Head(t)) ELSE seen)

\* extract_key_links 1005: seen.sort(key=rank), a stable sort
RECURSIVE SortByRank(_, _)
SortByRank(seen, r) ==
  IF r > 4 THEN <<>>
  ELSE SelectSeq(seen, LAMBDA u : LinkRank(u) = r) \o SortByRank(seen, r + 1)

\* extract_key_links 982-1006
ExtractKeyLinks(text, limit) ==
  LET ranked == SortByRank(SeenUrls(text, <<>>), 0)
  IN SubSeq(ranked, 1, IF Len(ranked) < limit THEN Len(ranked) ELSE limit)

\* The communication text of a case: text before the first message, then
\* the messages, each a timestamp, what follows it and its URLs,
\* the pieces separated by blanks.
\* a plain message and one of the support with its subject
MessageBodies == {<<>>, <<" ", HPE_MARK, " ", SUBJECT>>}
Messages == [ts : {TS_A, TS_B}, body : MessageBodies, urls : SeqsUpTo(LinkUrls, 1)]
RECURSIVE Spaced(_)
Spaced(q) == IF q = <<>> THEN <<>> ELSE <<" ", Head(q)>> \o Spaced(Tail(q))
RECURSIVE CommsText(_, _)
CommsText(pre, messages) ==
  IF messages = <<>> THEN pre
  ELSE CommsText(pre \o (IF pre = <<>> THEN <<>> ELSE <<" ">>)
                     \o <<Head(messages).ts>> \o Head(messages).body
                     \o Spaced(Head(messages).urls),
                 Tail(messages))

\* main() 1839: the text the key links are taken from
KeyLinkSource(last_block, comms_text) ==
  IF last_block # <<>> THEN last_block ELSE comms_text

\* main() 1778-1780 and 1839: the selected message and the key links
CaseKeyLinks(comms_text) ==
  LET last == PickLastHpeMessage(SplitMessages(comms_text))
  IN [last_block |-> last.block,
      key_links |-> ExtractKeyLinks(KeyLinkSource(last.block, comms_text),
                                    KEY_LINK_LIMIT)]

\* the key-link part of one iteration of the case loop
KeyLinksCall ==
  /\ entry = "case_key_links" /\ pc = "fn_call"
  /\ FnReturn(CaseKeyLinks(CommsText(fnArgs.pre, fnArgs.messages)))
  /\ UNCHANGED <<callVars, runVars>>

InitKeyLinks ==
  /\ Parked("case_key_links")
  /\ fnArgs \in [pre : SeqsUpTo(LinkUrls, 1), messages : SeqsUpTo(Messages, MaxMessages)]
  /\ fnRet = <<>>

(* ----------------------------- find_host_name ------------------------- *)
\* A text is given as its lines, a line as its pieces: the host label (one
\* of the three of 1081), a colon, a blank, a value.  The values: a host
\* name, a host name with letters glued after its last digit, a word of the
\* stop list, a word too short for HOST_TOKEN_RX 874, the cut phrase.
HostLines == 3
HOST_LABEL == "Host Name"
GLUED == "src123You"
HostTokens == {"src123", GLUED, "None"}
YOU_WILL == "You will"
HostLineForms ==
  {<<HOST_LABEL, ":", " ", x>> : x \in HostTokens \cup {"ab"}}
    \cup {<<HOST_LABEL, ":">>, <<GLUED>>, <<"None">>, <<>>,
          <<HOST_LABEL, ":", " ", "src123", YOU_WILL>>}
HostTexts == SeqsUpTo(HostLineForms, HostLines)

\* the text of the lines: "\n".join(lines)
RECURSIVE JoinLines(_)
JoinLines(lines) ==
  IF lines = <<>> THEN <<>>
  ELSE IF Len(lines) = 1 THEN lines[1]
  ELSE lines[1] \o <<"\n">> \o JoinLines(Tail(lines))

\* \s*: the first piece from i on that is no whitespace (Len + 1 if none)
RECURSIVE PastSpace(_, _)
PastSpace(t, i) == IF i <= Len(t) /\ t[i] \in Space THEN PastSpace(t, i + 1) ELSE i
\* [^\r\n]*: the first line end from i on (Len + 1 if none)
RECURSIVE ToLineEnd(_, _)
ToLineEnd(t, i) == IF i <= Len(t) /\ t[i] \notin {"\n", "\r"} THEN ToLineEnd(t, i + 1) ELSE i

\* find_host_name 1084-1086 and 1106-1108: val.split(cut, 1)[0].strip()
RECURSIVE BeforeCut(_)
BeforeCut(val) ==
  IF val = <<>> \/ Head(val) = YOU_WILL THEN <<>>
  ELSE <<Head(val)>> \o BeforeCut(Tail(val))
\* HOST_TOKEN_RX.search(val): the first token of the value, "" if none; in
\* a label it finds the label's first word
TokenIn(piece) ==
  IF piece \in HostTokens THEN piece
  ELSE IF piece = HOST_LABEL THEN "Host"
  ELSE ""
RECURSIVE FirstToken(_)
FirstToken(val) ==
  IF val = <<>> THEN ""
  ELSE IF TokenIn(Head(val)) # "" THEN TokenIn(Head(val))
  ELSE FirstToken(Tail(val))
\* find_host_name 1092-1094: cut back to the last digit
TrimGlued(host) == IF host = GLUED THEN "src123" ELSE host
\* find_host_name 1095, 1113: host.lower() in STOP_HOST_VALUES
IsStopValue(host) == host = "None"

\* the label at piece i of t with its colon: the value that follows,
\* up to the end of its line
LabelAt(t, i) ==
  /\ t[i] = HOST_LABEL
  /\ PastSpace(t, i + 1) <= Len(t)
  /\ t[PastSpace(t, i + 1)] = ":"
ValueAfter(t, i) ==
  LET from == PastSpace(t, PastSpace(t, i + 1) + 1)
  IN SubSeq(t, from, ToLineEnd(t, from) - 1)

\* find_host_name 1081-1096: the first label anywhere in the text
FullTextHost(t) ==
  LET at == {i \in 1..Len(t) : LabelAt(t, i)}
  IN IF at = {} THEN ""
     ELSE LET i == CHOOSE x \in at : \A o \in at : x <= o
              host == TrimGlued(FirstToken(StripText(BeforeCut(StripText(ValueAfter(t, i))))))
          IN IF host = "" \/ IsStopValue(host) THEN "" ELSE host

\* find_host_name 1099-1115: the lines in turn
RECURSIVE LineHost(_, _)
LineHost(lines, k) ==
  IF k > Len(lines) THEN ""
  ELSE LET line == StripText(lines[k])
           host == IF line # <<>> /\ LabelAt(line, 1)
                     THEN FirstToken(StripText(BeforeCut(StripText(ValueAfter(line, 1)))))
                     ELSE ""
       IN IF host = "" \/ IsStopValue(host) THEN LineHost(lines, k + 1) ELSE host

\* find_host_name 1072-1117
FindHostName(lines) ==
  IF FullTextHost(JoinLines(lines)) # "" THEN FullTextHost(JoinLines(lines))
  ELSE LineHost(lines, 1)

\* a call find_host_name(text)
HostCall ==
  /\ entry = "find_host_name" /\ pc = "fn_call"
  /\ FnReturn(FindHostName(fnArgs.text))
  /\ UNCHANGED <<callVars, runVars>>

InitHost ==
  /\ Parked("find_host_name")
  /\ fnArgs \in [text : HostTexts]
  /\ fnRet = <<>>

InitCase ==
  \/ InitClassify
  \/ InitSplit
  \/ InitPick
  \/ InitSubject
  \/ InitPairs
  \/ InitKeyLinks
  \/ InitHost
NextCase ==
  \/ ClassifyCall
  \/ SplitCall
  \/ PickCall
  \/ SubjectCall
  \/ PairsCall
  \/ KeyLinksCall
  \/ HostCall
SpecCase == InitCase /\ [][NextCase]_vars

(* ------------------------------------------------------------------ *)
\* the four fields the record shows for an onsite visit
OnsiteFields == {"onsite_task_id", "onsite_scheduling_status",
                 "onsite_latest_service_start", "onsite_engineer"}
\* C21: when the classifier says IN_PROGRESS and one of the onsite fields
\* (task id, scheduling status, latest service start, engineer name) is
\* non-empty, the record's category is ONSITE_SERVICE and its actions are
\* the two onsite actions, without the in-progress action.
C21_OnsiteOverride ==
  (/\ entry = "case_category" /\ pc = "fn_done"
   /\ fnRet.inferred = "IN_PROGRESS"
   /\ fnRet.onsite.keys \cap OnsiteFields # {}) =>
    /\ fnRet.category = "ONSITE_SERVICE"
    /\ fnRet.actions = ACT_ONSITE
    /\ \A i \in 1..Len(fnRet.actions) : fnRet.actions[i] # ACT_FOLLOW
C21_Witness ==
  /\ entry = "case_category" /\ pc = "fn_done"
  /\ fnRet.inferred = "IN_PROGRESS"
  /\ fnArgs.comms = {} /\ fnArgs.tab = "tab"
  /\ fnRet.onsite.keys = {"onsite_scheduling_status"}
  /\ fnRet.category = "ONSITE_SERVICE"

(* ------------------------------------------------------------------ *)
\* the positions of the timestamp matches of a text, and the k-th of them
HitSet(t) == {i \in 1..Len(t) : IsHit(t, i)}
NthHit(t, k) == CHOOSE i \in HitSet(t) : Cardinality({j \in HitSet(t) : j < i}) = k - 1
\* the text from the k-th match up to the next match or the end of the text
Span(t, k) ==
  SubSeq(t, NthHit(t, k),
         IF k < Cardinality(HitSet(t)) THEN NthHit(t, k + 1) - 1 ELSE Len(t))
InSplit == entry = "split_messages" /\ pc = "fn_done"
\* C22 as stated: one block per timestamp match, in order of appearance;
\* each block is the text from its timestamp up to the next match or the
\* end of the text; no match gives the empty list.
C22_Claim ==
  InSplit =>
    LET norm == Normalize(fnArgs.text)
    IN /\ Len(fnRet) = Cardinality(HitSet(norm))
       /\ \A k \in 1..Len(fnRet) :
            /\ fnRet[k].ts = norm[NthHit(norm, k)]
            /\ fnRet[k].block = Span(norm, k)
\* C22, amended: one block per timestamp match, in order of appearance,
\* not of timestamp value; each block is the text from its timestamp up to
\* the next match or the end of the text (line ends normalised) with the
\* surrounding whitespace stripped, so it starts with its timestamp and
\* holds nothing that precedes the first match; no match gives the empty
\* list.
C22_BlockPerTimestamp ==
  InSplit =>
    LET norm == Normalize(fnArgs.text)
    IN /\ Len(fnRet) = Cardinality(HitSet(norm))
       /\ \A k \in 1..Len(fnRet) :
            /\ fnRet[k].ts = norm[NthHit(norm, k)]
            /\ fnRet[k].block = StripText(Span(norm, k))
            /\ fnRet[k].block[1] = fnRet[k].ts
            /\ Len(fnRet[k].block) <= Len(norm) - NthHit(norm, k) + 1
C22_Witness ==
  /\ InSplit
  /\ fnArgs.text = <<"w", " ", TS_B, " ", TS_A>>
  /\ fnRet = <<[ts |-> TS_B, block |-> <<TS_B>>], [ts |-> TS_A, block |-> <<TS_A>>]>>

(* ------------------------------------------------------------------ *)
InPick == entry = "pick_last_hpe_message" /\ pc = "fn_done"
\* the date a block is ranked by, an unparsable timestamp counting as minimal
RankDate(b) == IF ParseTs(b.ts) = NoDate THEN DateMin ELSE ParseTs(b.ts)
Latest(b, among) == b \in among /\ \A o \in among : RankDate(o) <= RankDate(b)
\* C23: when some block has both a support-sender marker and a Subject
\* marker, the result is one of those blocks, with the latest timestamp
\* among them (an unparsable one counting as minimal); when none has, it is
\* a most recent block overall.
C23_Claim ==
  (InPick /\ fnArgs.blocks # <<>>) =>
    LET all == {fnArgs.blocks[i] : i \in 1..Len(fnArgs.blocks)}
        qualifying == {b \in all : Qualifies(b.block)}
    IN IF qualifying # {} THEN Latest(fnRet, qualifying) ELSE Latest(fnRet, all)

(* ------------------------------------------------------------------ *)
InSubject == entry = "extract_subject" /\ pc = "fn_done"
\* the first Subject line of a block and the first non-blank line after it
FirstSubject(lines) ==
  CHOOSE i \in 1..Len(lines) :
    lines[i] = SUBJECT /\ \A j \in 1..(i - 1) : lines[j] # SUBJECT
NextText(lines, i) ==
  CHOOSE j \in (i + 1)..Len(lines) :
    lines[j] \notin BlankLines /\ \A o \in (i + 1)..(j - 1) : lines[o] \in BlankLines
\* C24: the non-blank line at offset k after the Subject line, with only
\* blank lines between, is the result for every k from 1 to 12, and is not
\* the result for k of 13 or more.
C24_Claim ==
  InSubject =>
    LET lines == fnArgs.block
        i == FirstSubject(lines)
        j == NextText(lines, i)
    IN /\ j - i <= 12 => fnRet = lines[j]
       /\ j - i >= 13 => fnRet # lines[j]

(* ------------------------------------------------------------------ *)
InPairs == entry = "parse_line_pairs" /\ pc = "fn_done"
\* what line i says about field k, in either layout; <<>> if nothing
ValueAt(lines, i, k) ==
  IF SameLine(StripText(lines[i])).key = k THEN SameLine(StripText(lines[i])).val
  ELSE IF LabelLine(lines, i).key = k THEN LabelLine(lines, i).val
  ELSE <<>>
Occurrences(lines, k) == {i \in 1..Len(lines) : ValueAt(lines, i, k) # <<>>}
\* C25: each field has the value of its first occurrence in line order,
\* in whichever layout and under whichever label spelling; no later
\* occurrence replaces it, and a field without an occurrence is not set.
C25_FirstOccurrenceWins ==
  InPairs =>
    \A k \in FieldKeys :
      LET occ == Occurrences(fnArgs.text, k)
      IN IF occ = {} THEN fnRet[k] = <<>>
         ELSE \E i \in occ :
                /\ \A o \in occ : i <= o
                /\ fnRet[k] = ValueAt(fnArgs.text, i, k)
C25_Witness ==
  /\ InPairs
  /\ fnArgs.text = <<<<"Status">>, <<"c">>, <<"CASE STATUS", ":", "b">>,
                     <<"Status", ":", " ", "a">>>>
  /\ fnRet["status"] = <<"c">>

(* ------------------------------------------------------------------ *)
InKeyLinks == entry = "case_key_links" /\ pc = "fn_done"
\* C26: the key links of a record are the ranked, deduplicated URLs of the
\* whole communication text, whichever block was selected as the last
\* support message.
C26_Claim ==
  InKeyLinks =>
    fnRet.key_links =
      ExtractKeyLinks(CommsText(fnArgs.pre, fnArgs.messages), KEY_LINK_LIMIT)

(* ------------------------------------------------------------------ *)
InHost == entry = "find_host_name" /\ pc = "fn_done"
\* the token that follows the host label of line k, "" if there is none
LabelToken(lines, k) ==
  IF lines[k] # <<>> /\ LabelAt(lines[k], 1)
    THEN FirstToken(BeforeCut(ValueAfter(lines[k], 1)))
    ELSE ""
\* the first line whose host label is followed by a token outside the stop list
Usable(lines, k) == LabelToken(lines, k) # "" /\ ~IsStopValue(LabelToken(lines, k))
FirstUsable(lines) ==
  CHOOSE k \in 1..Len(lines) : Usable(lines, k) /\ \A o \in 1..(k - 1) : ~Usable(lines, o)
\* C27: when the host label is followed by a token that ends in a digit
\* with two or more letters glued after it, the result is the token cut
\* back to its last digit; the result is never a value of the stop list.
C27_Claim ==
  InHost =>
    /\ ~IsStopValue(fnRet)
    /\ (\E k \in 1..Len(fnArgs.text) : Usable(fnArgs.text, k)) =>
         (LabelToken(fnArgs.text, FirstUsable(fnArgs.text)) = GLUED => fnRet = "src123")

(* ======================= ensure_ready, on its own ===================== *)
\* ensure_ready 758-796: one pass of the loop of a direct call.  fnRet
\* keeps the page and the list the pass looked at and what the pass gave:
\* "wait" (another pass), "ready" (returned True) or the error raised;
\* `looked` are the pages of all the passes so far.
EnsureReadyCall ==
  /\ entry = "ensure_ready" /\ pc = "fn_call"
  /\ IF erPolls >= MaxPolls
       THEN /\ pc' = "fn_raised"
            /\ fnRet' = [fnRet EXCEPT !.value = "CASES_PAGE_NOT_READY_TIMEOUT"]
            /\ UNCHANGED erPolls
       ELSE \E p \in Pages, view \in ListViews :
              LET r == EnsureReadyPoll(p, view)
              IN /\ fnRet' = [page |-> p, view |-> view, value |-> r,
                             looked |-> Append(fnRet.looked, p)]
                 /\ pc' = IF r = "wait" THEN "fn_call"
                          ELSE IF r = "ready" THEN "fn_done" ELSE "fn_raised"
                 /\ erPolls' = IF r = "wait" THEN erPolls + 1 ELSE erPolls
  /\ UNCHANGED <<callVars, exit, uncaught, now, DEADLINE, page, lastNav, fileVars,
                 loginVars, erCall, raised, caseVars, alarm, outputs, written,
                 histVars>>

InitEnsureReady ==
  /\ Parked("ensure_ready")
  /\ fnArgs = <<>>
  /\ fnRet = [page |-> Loading, view |-> "none", value |-> "wait", looked |-> <<>>]

(* ------------------ goto_cases_with_retry, on its own ----------------- *)
\* The steps of goto_cases_with_retry 804-857 and what a step can give: a
\* navigation gives one of NavResults, the pause is over (its error is
\* ignored, 818-821), a look at the route confirms it or not.
StepResults(step) ==
  CASE step \in {"goto", "goto_commit"} -> NavResults
    [] step = "pause" -> {"over"}
    [] OTHER -> {"confirmed", "unconfirmed"}

\* goto_cases_with_retry 815-816: only the abort is recovered from
IsAbortedOrError(res) == res # "ok"
IsAborted(res) == res = "aborted"

\* where the function goes after a step: the next step, "return" or "raise"
AfterStep(step, res) ==
  CASE step = "goto" ->
         IF res = "ok" THEN "return" ELSE IF IsAborted(res) THEN "pause" ELSE "raise"
    [] step = "pause" -> "check_route"
    [] step = "check_route" -> IF res = "confirmed" THEN "return" ELSE "wait_route"
    [] step = "wait_route" -> IF res = "confirmed" THEN "return" ELSE "click_link"
    [] step = "click_link" -> IF res = "confirmed" THEN "return" ELSE "goto_commit"
    [] step = "goto_commit" -> IF res = "error" THEN "raise" ELSE "return"

\* one step of a direct call; fnRet keeps the steps taken with their
\* results and the step that comes next
GotoCasesStep ==
  /\ entry = "goto_cases_with_retry" /\ pc = "fn_call"
  /\ \E res \in StepResults(fnRet.at) :
       LET next == AfterStep(fnRet.at, res)
       IN /\ fnRet' = [trace |-> Append(fnRet.trace, [step |-> fnRet.at, res |-> res]),
                       at |-> next]
          /\ pc' = IF next = "return" THEN "fn_done"
                   ELSE IF next = "raise" THEN "fn_raised" ELSE "fn_call"
  /\ UNCHANGED <<callVars, runVars>>

InitGotoCases ==
  /\ Parked("goto_cases_with_retry")
  /\ fnArgs = <<>>
  /\ fnRet = [trace |-> <<>>, at |-> "goto"]

InitNav ==
  \/ InitEnsureReady
  \/ InitGotoCases
NextNav ==
  \/ EnsureReadyCall
  \/ GotoCasesStep
SpecNav == InitNav /\ [][NextNav]_vars

(* ------------------------------------------------------------------ *)
\* the pass of ensure_ready that ended the call, having looked at the page
EnsureReadyEnded ==
  /\ entry = "ensure_ready" /\ pc \in {"fn_done", "fn_raised"}
  /\ fnRet.value # "CASES_PAGE_NOT_READY_TIMEOUT"
\* C28: a visible session-expired banner, together with the authenticating
\* placeholder or a sign-in trigger and without an auth page or login
\* form, makes the readiness check report SESSION_EXPIRED, not
\* LOGIN_REQUIRED.
C28_Claim ==
  (/\ EnsureReadyEnded
   /\ IsSessionExpired(fnRet.page)
   /\ ~IsLoginScreen(fnRet.page)
   /\ IsAuthenticating(fnRet.page) \/ IsLoggedOut(fnRet.page)) =>
    fnRet.value = "SESSION_EXPIRED"

(* ------------------------------------------------------------------ *)
\* the authenticating placeholder is the only signal the page shows
OnlyAuthenticating(p) ==
  /\ IsAuthenticating(p)
  /\ ~IsSessionExpired(p) /\ ~IsLoginScreen(p) /\ ~IsLoggedOut(p)
\* C29: while the authenticating placeholder is the only signal, the
\* session check waits and looks again; it does not report LOGIN_REQUIRED.
C29_Claim ==
  (entry = "ensure_ready" /\ OnlyAuthenticating(fnRet.page)) =>
    fnRet.value # "LOGIN_REQUIRED"

(* ------------------------------------------------------------------ *)
InGotoCases == entry = "goto_cases_with_retry"
\* the order of the claim: the navigation, then the fallbacks
FallbackOrder == <<"goto", "pause", "check_route", "wait_route", "click_link",
                   "goto_commit">>
\* a step that showed the route to be the case list
Confirms(s) == s.res \in {"ok", "confirmed"}
\* C30: the steps are taken in the fixed order (navigation, pause, route
\* check, wait for the route, link click, navigation with 'commit'); a
\* step is taken only after an aborted first navigation and when no
\* earlier step confirmed the route; a first navigation that fails with
\* another error raises at once, with no fallback.
C30_FallbackOrder ==
  InGotoCases =>
    LET tr == fnRet.trace
    IN /\ Len(tr) <= Len(FallbackOrder)
       /\ \A k \in 1..Len(tr) :
            /\ tr[k].step = FallbackOrder[k]
            /\ k > 1 => tr[1].res = "aborted"
            /\ \A j \in 1..(k - 1) : ~Confirms(tr[j])
       /\ (Len(tr) >= 1 /\ tr[1].res = "error") =>
            /\ Len(tr) = 1 /\ pc = "fn_raised"
       /\ (pc = "fn_call" /\ tr # <<>>) => ~Confirms(tr[Len(tr)])
       /\ pc = "fn_done" => \/ Confirms(tr[Len(tr)])
                            \/ tr[Len(tr)] = [step |-> "goto_commit", res |-> "aborted"]
C30_Witness ==
  /\ InGotoCases /\ pc = "fn_done"
  /\ Len(fnRet.trace) = 6
  /\ fnRet.trace[1].res = "aborted"
  /\ fnRet.trace[5].res = "unconfirmed"
  /\ fnRet.trace[6].res = "ok"

(* ------------------------------------------------------------------ *)
InInfer == entry = "infer_requested_actions" /\ pc = "fn_done"
PlanStatus(status) == "complete action plan" \in status /\ ~Approval(status)
LogText(comms) == "log file request" \in comms
\* the actions of the rules that run only while no action has been added
LateActions == {ACT_ONSITE[1], ACT_ONSITE[2], ACT_FOLLOW, ACT_AWAIT, ACT_MANUAL}
\* C31: with a status that contains "complete action plan" (and not both
\* "approve" and "closure") the action-plan action is the first action and
\* no action of rules 4 to 7 is in the result; the category is ACTION_PLAN
\* unless the communication text matches the log-request rule, and then it
\* is LOG_REQUEST with the log-request actions after the action-plan
\* action, in order.
C31_ActionPlanFirst ==
  (InInfer /\ PlanStatus(fnArgs.status)) =>
    /\ fnRet.actions # <<>> /\ Head(fnRet.actions) = ACT_PLAN
    /\ \A i \in 1..Len(fnRet.actions) : fnRet.actions[i] \notin LateActions
    /\ IF LogText(fnArgs.comms)
         THEN /\ fnRet.category = "LOG_REQUEST"
              /\ Tail(fnRet.actions) =
                   <<ACT_AHS>>
                   \o (IF "reply all" \in fnArgs.comms THEN <<ACT_REPLY>> ELSE <<>>)
                   \o (IF "led" \in fnArgs.comms THEN <<ACT_ILO>> ELSE <<>>)
         ELSE /\ fnRet.category = "ACTION_PLAN"
              /\ fnRet.actions = <<ACT_PLAN>>
C31_Witness ==
  /\ InInfer
  /\ fnArgs.status = {"complete action plan", "in progress", "closure"}
  /\ {"log file request", "reply all", "led", "onsite service"} \subseteq fnArgs.comms
  /\ fnRet.category = "LOG_REQUEST"
  /\ fnRet.actions = <<ACT_PLAN, ACT_AHS, ACT_REPLY, ACT_ILO>>

(* ------------------------------------------------------------------ *)
OnsiteText(comms) ==
  "onsite service" \in comms \/ {"dispatch", "engineer"} \subseteq comms
InProgressInput(status, comms) == "in progress" \in status \/ "in progress" \in comms
\* rule 2 or rule 3 adds an action
ActionAdded(status, comms) == "complete action plan" \in status \/ LogText(comms)
\* C32: rules 4, 5 and 6 are tried in that order and only while no action
\* has been added: onsite phrasing gives ONSITE_SERVICE even with "in
\* progress" in status or text, "in progress" gives IN_PROGRESS even with
\* "awaiting customer action" in the status, and once rule 2 or 3 has
\* added an action the category is none of ONSITE_SERVICE, IN_PROGRESS,
\* AWAITING, UNKNOWN.
C32_RuleOrder ==
  InInfer =>
    LET st == fnArgs.status
        c == fnArgs.comms
        free == ~Approval(st) /\ ~ActionAdded(st, c)
    IN /\ ActionAdded(st, c) =>
            fnRet.category \notin {"ONSITE_SERVICE", "IN_PROGRESS", "AWAITING", "UNKNOWN"}
       /\ (free /\ OnsiteText(c)) =>
            fnRet.category = "ONSITE_SERVICE" /\ fnRet.actions = ACT_ONSITE
       /\ (free /\ ~OnsiteText(c) /\ InProgressInput(st, c)) =>
            fnRet.category = "IN_PROGRESS" /\ fnRet.actions = <<ACT_FOLLOW>>
       /\ (free /\ ~OnsiteText(c) /\ ~InProgressInput(st, c)
                /\ "awaiting customer action" \in st) =>
            fnRet.category = "AWAITING" /\ fnRet.actions = <<ACT_AWAIT>>
C32_Witness ==
  /\ InInfer
  /\ fnArgs.status = {"in progress", "awaiting customer action"}
  /\ fnArgs.comms = {"dispatch", "engineer", "in progress"}
  /\ fnRet.category = "ONSITE_SERVICE"

(* ------------------------------------------------------------------ *)
InClassify == entry = "case_category" /\ pc = "fn_done"
\* C33: the onsite override changes nothing unless the classifier's
\* category is exactly IN_PROGRESS: for every other category the record's
\* category, summary and actions are the classifier's output, whatever the
\* onsite fields hold; and an IN_PROGRESS record whose only onsite signal
\* is the "detected" flag stays IN_PROGRESS.
C33_OverrideOnlyInProgress ==
  InClassify =>
    LET r == InferRequestedActions(fnArgs.status, fnArgs.comms)
        same == /\ fnRet.category = r.category
                /\ fnRet.summary = r.summary
                /\ fnRet.actions = r.actions
    IN /\ r.category # "IN_PROGRESS" => same
       /\ (r.category = "IN_PROGRESS" /\ fnRet.onsite.keys = {}) => same
C33_Witness ==
  /\ InClassify
  /\ fnArgs.status = {"awaiting customer action"}
  /\ fnArgs.comms = {"onsite"}
  /\ fnRet.onsite.detected
  /\ fnRet.onsite.keys = {"onsite_engineer", "onsite_scheduling_status"}
  /\ fnRet.category = "AWAITING"
  /\ fnRet.actions = <<ACT_AWAIT>>
C33_WitnessDetectedOnly ==
  /\ InClassify
  /\ fnRet.inferred = "IN_PROGRESS"
  /\ fnRet.onsite.detected /\ fnRet.onsite.keys = {}
  /\ fnRet.category = "IN_PROGRESS"

(* ------------------------------------------------------------------ *)
Categories == {"CLOSE_APPROVAL", "ACTION_PLAN", "LOG_REQUEST", "ONSITE_SERVICE",
               "IN_PROGRESS", "AWAITING", "UNKNOWN"}
\* no rule of the classifier matches the input
NoRuleMatched(status, comms) ==
  /\ ~Approval(status)
  /\ ~ActionAdded(status, comms)
  /\ ~OnsiteText(comms)
  /\ ~InProgressInput(status, comms)
  /\ "awaiting customer action" \notin status
\* C38: for every status and communication text, the empty ones included,
\* the category is one of the seven categories and the action list is not
\* empty; the category is UNKNOWN exactly when no rule matched, and then
\* the list holds only the manual-review action.
C38_TotalClassifier ==
  InInfer =>
    /\ fnRet.category \in Categories
    /\ fnRet.actions # <<>>
    /\ fnRet.category = "UNKNOWN" <=> NoRuleMatched(fnArgs.status, fnArgs.comms)
    /\ fnRet.category = "UNKNOWN" => fnRet.actions = <<ACT_MANUAL>>
C38_Witness ==
  /\ InInfer
  /\ fnArgs.status = {} /\ fnArgs.comms = {}
  /\ fnRet.category = "UNKNOWN"
  /\ fnRet.actions = <<ACT_MANUAL>>

(* ------------------------------------------------------------------ *)
\* a line that is a lone dash
LoneDash(line) == line \in {<<HYPHEN>>, <<EM_DASH>>}
\* the lines after line i that are not blank
NonBlankAfter(lines, i) == {j \in (i + 1)..Len(lines) : StripText(lines[j]) # <<>>}
\* what the label line i gives to field k as C34 states it: the next
\* non-blank line, unless it is missing, a known label or a lone dash
LabelValue(lines, i, k) ==
  IF LabelMap(StripText(lines[i])) # k \/ NonBlankAfter(lines, i) = {} THEN <<>>
  ELSE LET j == CHOOSE n \in NonBlankAfter(lines, i) :
                  \A o \in NonBlankAfter(lines, i) : n <= o
           val == StripText(lines[j])
       IN IF LabelMap(val) # "" \/ LoneDash(val) THEN <<>> ELSE val
\* what line i gives to field k, in either layout
GivenAt(lines, i, k) ==
  IF SameLine(StripText(lines[i])).key = k THEN SameLine(StripText(lines[i])).val
  ELSE LabelValue(lines, i, k)
\* C34 as stated: a label line gives its field the next non-blank line,
\* and gives nothing when that line is missing, is itself a known label in
\* any letter case, or is a lone dash; so each field holds what its first
\* giving line gives, and no value is a line that is a known label.
C34_Claim ==
  InPairs =>
    \A k \in FieldKeys :
      LET giving == {i \in 1..Len(fnArgs.text) : GivenAt(fnArgs.text, i, k) # <<>>}
      IN /\ LabelMap(fnRet[k]) = ""
         /\ IF giving = {} THEN fnRet[k] = <<>>
            ELSE \E i \in giving :
                   /\ \A o \in giving : i <= o
                   /\ fnRet[k] = GivenAt(fnArgs.text, i, k)

(* ------------------------------------------------------------------ *)
\* the banner is visible and no login-screen, logged-out or authenticating
\* signal is present
BannerOnly(p) ==
  /\ IsSessionExpired(p)
  /\ ~IsLoginScreen(p) /\ ~IsLoggedOut(p) /\ ~IsAuthenticating(p)
\* C35: if the session-expired banner is visible at every pass of the
\* readiness check, with no login-screen, logged-out or authenticating
\* signal, the check ends with SESSION_EXPIRED whatever the URL is, never
\* with the readiness timeout.
C35_Claim ==
  (/\ entry = "ensure_ready" /\ pc \in {"fn_done", "fn_raised"}
   /\ fnRet.looked # <<>>
   /\ \A i \in 1..Len(fnRet.looked) : BannerOnly(fnRet.looked[i])) =>
    fnRet.value = "SESSION_EXPIRED"

(* ------------------------------------------------------------------ *)
\* C36: a call that returns normally after its first navigation was
\* aborted has seen the route to be the case list (the URL contains
\* "tab=cases"); it never returns with the route unconfirmed.
C36_Claim ==
  (/\ InGotoCases /\ pc = "fn_done"
   /\ fnRet.trace # <<>> /\ fnRet.trace[1].res = "aborted") =>
    Confirms(fnRet.trace[Len(fnRet.trace)])

(* ------------------------------------------------------------------ *)
\* the step that calls collect_case_numbers
CallsCollect == pc # "collect" /\ pc' = "collect"
\* C37: collect_case_numbers is called only when an ensure_ready call has
\* returned True after the most recent navigation to the case list: the
\* calling step is the first check returning True, or follows a recovery
\* whose second check returned True, and the last navigation is the one to
\* the case list; and while the first check has raised and no recovery
\* with a passing second check has followed, no case is enumerated or
\* opened.
C37_CollectOnlyWhenReady ==
  [][/\ CallsCollect =>
          /\ lastNav = "cases" /\ lastNav' = "cases"
          /\ \/ pc = "ensure_ready" /\ erCall = 1 /\ raised = ""
             \/ pc = "er_tail" /\ erCall = 2 /\ recoveredReady
     /\ (raised' # "" /\ ~recoveredReady') =>
          /\ pc' \notin {"collect", "case_loop"}
          /\ ~enumerated'
          /\ case_nos' = <<>> /\ results' = <<>> /\ errors' = <<>>]_vars
C37_Witness ==
  /\ entry = "main" /\ pc = "collect"
  /\ erCall = 2 /\ recoveredReady /\ lastNav = "cases"
  /\ ~enumerated

(* ------------------------------------------------------------------ *)
Ended(codes) == pc = "done" /\ exit \in codes
\* the end-of-run persist is under way
InFinalPersist == awCaller = "final" /\ pc \in {"aw_open", "aw_write", "aw_rename"}
\* the persist, its failure included, leaves the outputs and what decides
\* the exit code alone
PersistKeepsOutputs ==
  [][InFinalPersist =>
       /\ outputs' = outputs /\ written' = written
       /\ results' = results /\ errors' = errors]_vars
\* a run that returns 0 or 1 has made one end-of-run persist, after the
\* outputs, and its code depends on the per-case errors only
OnePersistThenCode ==
  (pc = "finish" \/ Ended({"0", "1"})) =>
    /\ finalPersists = 1 /\ outputs /\ written # {}
    /\ LoopDone(idx, case_nos)
    /\ Ended({"0", "1"}) => exit = (IF errors # <<>> THEN "1" ELSE "0")
\* C39 as stated: every run that completes the case loop attempts exactly
\* one end-of-run persist, after the outputs are written and before it
\* returns, with exit code 0 as well as 1; a failure of that write changes
\* neither the outputs nor the exit code; runs that end with 3, 4 or 130
\* perform no end-of-run persist.
C39_Claim ==
  /\ [](/\ finalPersists <= 1
        /\ finalPersists = 1 => outputs
        /\ OnePersistThenCode
        /\ Ended({"3", "4", "130"}) => finalPersists = 0)
  /\ PersistKeepsOutputs
\* C39, amended: as above, but a run that ends with 130 has attempted the
\* end-of-run persist when the interrupt arrived during or after it; runs
\* that end with 2, 3 or 4 have attempted none.
C39_EndOfRunPersist ==
  /\ [](/\ finalPersists <= 1
        /\ finalPersists = 1 => (outputs /\ LoopDone(idx, case_nos))
        /\ OnePersistThenCode
        /\ Ended({"2", "3", "4"}) => finalPersists = 0
        /\ (pc = "done" /\ finalPersists = 1) => exit \in {"0", "1", "130"})
  /\ PersistKeepsOutputs
\* a run that returned 1 although its end-of-run persist failed: the
\* session file does not hold the new blob
C39_Witness ==
  /\ Ended({"1"}) /\ finalPersists = 1
  /\ fs[StatePath] # Blob(ctxVer)
  /\ written # {} /\ errors # <<>>

(* ------------------------------------------------------------------ *)
InOpen == entry = "open_case_by_number" /\ pc \in {"fn_done", "fn_raised"}
\* C40: open_case_by_number looks for the identifier in the whole
\* document, as the enumerator did, so an identifier that can be clicked is
\* never reported as a per-case error for lying outside the first visible
\* list container.
C40_Claim ==
  (InOpen /\ fnArgs.click = "ok") => (pc = "fn_done" /\ fnRet = "opened")

====
